---------------------------- MODULE Spec2Model ----------------------------
(***************************************************************************)
(* A model of the bank API (pago0812/bank-api): the relational store, the  *)
(* service functions that read and write it, and the route handlers that   *)
(* wrap them.  Every database call of a handler is an asynchronous         *)
(* boundary (an await), so a handler is a sequence of steps, one per       *)
(* database call, and the steps of different in-flight requests            *)
(* interleave.  A prisma.$transaction is one atomic step: its writes are   *)
(* row-level increments and inserts, and it commits all or nothing.        *)
(***************************************************************************)
EXTENDS Integers, Sequences, FiniteSets, TLC


\* ------------------------------------------------------------------ bounds

\* Largest amount a request carries.
MaxAmount == 2
\* Requests served in one behaviour of the concurrent ledger (Spec).
MaxRequests == 2
\* Requests served in one behaviour of the serial ledger (SeqSpec).
SeqRequests == 2
\* Requests served in one behaviour of the status model (StatusSpec).
StatusRequests == 2
\* Requests served in one behaviour of the card model (CardSpec).
CardRequests == 3
\* Requests served in one behaviour of the idempotent routes (IdemSpec).
IdemRequests == 2

\* Balance every account starts with: below the largest amount, so that a
\* single request can ask for more than the account holds.
\* Requests sent in the runs of ATM withdrawals, one at a time and two at once.
AtmRequests == 3
AtmRaceRequests == 2
\* Requests sent in the runs of logins and refreshes.
TokenRequests == 3
\* Requests sent in the runs of verification sessions, one at a time and
\* two at once.
VerifyRequests == 8
VerifyRaceRequests == 5
\* Requests in a run of the admin routes behind requireRole.
AdminRequests == 3

\* Requests in a run of the rate limiter, and the minutes the run lasts.
RateRequests == 5
MaxMinutes == 16

\* The logins of client ip1 in the first minute, before the run.
EarlyLogins == 8

\* Requests in a run of payments and their settlement.
PayRequests == 3

\* Requests in a run that closes customers.
CloseRequests == 4

\* Requests in a run of the employee and API-token services.
StaffRequests == 4

\* Requests in a run of the audited admin routes.
AuditRequests == 5

\* Requests in a run of the three authentication middlewares.
AuthRequests == 2

\* Requests in a run of the bot's scoped routes.
BotRequests == 3

\* Requests in a run of the customer routes.
OwnerRequests == 3

\* Requests in a run of card calls that overlap the closing of the account.
CardRaceRequests == 3

\* Requests in a run of withdrawals on every channel.
GateRequests == 3

\* Requests in a run of logins, refreshes and status changes of a customer.
SuspendRequests == 4

\* Requests in a run of the ledger of accounts opened with balance 0.
BooksRequests == 3

\* Requests in a run of the hourly cleanup pass.
SweepRequests == 3

\* Midnights (UTC) that pass in a run of ATM withdrawals.
MaxDays == 1

InitBalance == MaxAmount - 1
\* Daily ATM limit of the card the store starts with.
CardDailyLimit == MaxAmount

\* ------------------------------------------------------------- identities

Procs == {"p1", "p2"}              \* in-flight request slots
Customers == {"c1", "c2"}          \* Customer rows present in the store
NoCustomer == "c0"                 \* an id with no Customer row
CustomerIds == Customers \cup {NoCustomer}
Accounts == {"a1", "a2", "a3"}     \* Account rows present in the store
NoAccount == "a0"                  \* an id with no Account row
AccountIds == Accounts \cup {NoAccount}
CardIds == {"k1", "k2"}            \* ids the Card table can hold
NoCardId == "k0"                   \* an id with no Card row
Keys == {"K1", "K2"}               \* Idempotency-Key header values
NoKey == "none"                    \* the header is absent

SessionIds == {"s1"}               \* ids the VerificationSession table can hold
NoSessionId == "s0"                \* an id with no VerificationSession row
Phones == {"ph1", "ph2"}           \* Customer.phone of c1 and of c2
NoPhone == "ph0"                   \* a phone number of no customer

AccountCustomer(a) == IF a = "a1" THEN "c1" ELSE "c2"
AccountCurrency(a) == IF a = "a3" THEN "EUR" ELSE "USD"
AccountsOf(c) == {a \in Accounts : AccountCustomer(a) = c}

AccountStatuses == {"ACTIVE", "FROZEN", "CLOSED"}
CustomerStatuses == {"ACTIVE", "SUSPENDED", "CLOSED"}
CardStatuses == {"ACTIVE", "BLOCKED", "EXPIRED", "CANCELLED"}
CardTypes == {"DEBIT", "CREDIT"}
Channels == {"ATM", "TELLER", "ONLINE"}

VARIABLES
  custStatus,      \* Customer.status, per customer
  accStatus,       \* Account.status, per account
  balance,         \* Account.balance, per account
  cards,           \* Card rows: CardIds -> row, or NoCard before creation
  pastExpiry,      \* cards whose expiry month lies in the past (the clock)
  today,           \* the current UTC day (the clock)
  txns,            \* Transaction table, in insertion order
  transfers,       \* Transfer table
  payments,        \* Payment table
  withdrawals,     \* Withdrawal table
  deposits,        \* Deposit table
  timers,          \* pending payment-settlement timers
  idem,            \* IdempotencyRecord table: key -> row, or NoRecord
  audit,           \* AuditLog table
  pc,              \* per request slot: the handler's position
  req,             \* per request slot: the request being (or last) served
  loc,             \* per request slot: the handler's local variables
  resp,            \* per request slot: the last response sent
  budget,          \* requests the environment may still send
  tokens,          \* RefreshToken and EmployeeRefreshToken rows
  issued,          \* how many refresh-token values randomUUID has produced
  sessions,        \* VerificationSession rows: id -> row, or NoSession
  employees,       \* Employee rows: id -> row, or NoEmployeeRow
  apiTokens,       \* ApiToken table, in insertion order
  limiter,         \* the rate limiter's Map: key -> entry, or NoEntry
  clock,           \* Date.now(), in minutes since startup
  admits,          \* per key, the arrival times of the requests let through
  faults,          \* the tables whose deleteMany is rejected at present
  sweep            \* the hourly cleanup pass: the deletion it is to run

storeVars == <<custStatus, accStatus, balance, cards>>
clockVars == <<pastExpiry, today>>
ledgerVars == <<txns, transfers, payments, withdrawals, deposits, timers>>
routeVars == <<idem, audit>>
procVars == <<pc, req, loc, resp, budget>>
authVars == <<tokens, issued, sessions>>
staffVars == <<employees, apiTokens>>
limitVars == <<limiter, clock, admits>>
sweepVars == <<faults, sweep>>
vars == <<custStatus, accStatus, balance, cards, pastExpiry, today, txns, transfers,
          payments, withdrawals, deposits, timers, idem, audit, pc, req, loc,
          resp, budget, tokens, issued, sessions, employees, apiTokens,
          limiter, clock, admits, faults, sweep>>

\* ---------------------------------------------------------------- helpers

NoCard == [exists |-> FALSE]
NoSession == [exists |-> FALSE]
NoRecord == [exists |-> FALSE]
NoBody == [kind |-> "none"]
NoLoc == [k |-> "none"]
\* A call of a service function that does not come through a route.
Direct == [route |-> "none", key |-> NoKey, ws |-> 0, seq |-> 0]
NoReq == [op |-> "none", via |-> Direct]

\* errors.ts: the HTTP status each error code is raised with.
StatusOf(code) ==
  CASE code = "OK" -> 200
    [] code = "CREATED" -> 201
    [] code = "UNAUTHORIZED" -> 401
    [] code = "FORBIDDEN" -> 403
    [] code = "NOT_FOUND" -> 404
    [] code = "CONFLICT" -> 409
    [] code = "INTERNAL_ERROR" -> 500
    [] OTHER -> 422

\* An error (or a service result) as the error boundary renders it.
Reply(code, body) == [status |-> StatusOf(code), code |-> code, body |-> body]
\* c.json(body, status) of a success response.
Json(status, body) ==
  [status |-> status,
   code |-> IF status = StatusOf("CREATED") THEN "CREATED" ELSE "OK",
   body |-> body]
IsSuccess(r) == r.status \in {200, 201}

\* prisma.account.findUnique: the row as read, or null.
AccountRow(a) ==
  IF a \in Accounts
    THEN [exists |-> TRUE, id |-> a, status |-> accStatus[a],
          balance |-> balance[a], currency |-> AccountCurrency(a),
          customerId |-> AccountCustomer(a)]
    ELSE [exists |-> FALSE]

\* prisma.card.findUnique: the row as read, or null.
CardRow(k) == IF k \in CardIds THEN cards[k] ELSE NoCard

CardsOf(a) == {k \in CardIds : cards[k].exists /\ cards[k].accountId = a}

\* card.service: what createCard generates and what it stores of it.
PlainNumber(k) == [form |-> "plain", number |-> k]
PlainCvv(k) == [form |-> "plain", cvv |-> k]
HashCardNumber(n) == [form |-> "sha256", of |-> n.number]
HashCvv(v) == [form |-> "bcrypt", of |-> v.cvv]
FormatMaskedNumber(n) == [form |-> "masked", of |-> n.number]

NewCard(k, a, type, limit) ==
  [exists |-> TRUE, id |-> k, accountId |-> a, type |-> type,
   status |-> "ACTIVE", dailyLimit |-> limit,
   cardNumber |-> HashCardNumber(PlainNumber(k)),
   maskedNumber |-> FormatMaskedNumber(PlainNumber(k)),
   cvv |-> HashCvv(PlainCvv(k))]

\* An optional numeric field of a request body.
Absent == [given |-> FALSE, value |-> 0]
Given(n) == [given |-> TRUE, value |-> n]

\* cardSelectPublic: the columns every read and update of a card returns.
CardPublic(row) ==
  [id |-> row.id, accountId |-> row.accountId,
   maskedNumber |-> row.maskedNumber, type |-> row.type,
   status |-> row.status, dailyLimit |-> row.dailyLimit]

RECURSIVE SumAmounts(_)
SumAmounts(s) == IF s = <<>> THEN 0 ELSE Head(s).amount + SumAmounts(Tail(s))

Idle(p) == pc[p] \in {"idle", "done"}

\* A request arrives at a free slot; it is stamped with its arrival order.
Start(p, r) ==
  /\ Idle(p)
  /\ budget > 0
  /\ budget' = budget - 1
  /\ req' = [req EXCEPT ![p] = [r EXCEPT !.via.seq = budget]]

\* The handler of slot p resumes at the await it was suspended on.
Resume(p, label) ==
  /\ pc[p] = label
  /\ UNCHANGED <<req, budget>>

\* The response is sent: the slot is free again.
Respond(p, reply) ==
  /\ pc' = [pc EXCEPT ![p] = "done"]
  /\ loc' = [loc EXCEPT ![p] = NoLoc]
  /\ resp' = [resp EXCEPT ![p] = reply]

\* The handler awaits its next database call.
Await(p, label, locals) ==
  /\ pc' = [pc EXCEPT ![p] = label]
  /\ loc' = [loc EXCEPT ![p] = locals]
  /\ UNCHANGED resp

\* A service function throws: the error boundary answers with the code.
Throw(p, code) == Respond(p, Reply(code, NoBody))

\* The customer routes that create a transfer and a payment.
RouteTransfers == "POST /api/v1/transfers"
RoutePayments == "POST /api/v1/payments"
CustomerRoutes == {RouteTransfers, RoutePayments}

\* A service function returns its result: a direct caller has it at once, an
\* admin route handler goes on to its audit and idempotency writes, a
\* customer route handler to its idempotency write.
Return(p, r, code, result) ==
  IF r.via.route = "none"
    THEN Respond(p, Reply(code, result))
    ELSE IF r.via.route \in CustomerRoutes
      THEN IF r.via.key = NoKey
             THEN Respond(p, Json(StatusOf(code), result))
             ELSE Await(p, "route_save", [result |-> result])
      ELSE Await(p, "route_audit", [result |-> result])

\* ------------------------------------------------------------------- Init

\* The keys of the rate limiter: client IP and path.
RateKeys ==
  {<<"ip1", "/api/v1/admin/auth/login">>,
   <<"ip1", "/api/v1/admin/auth/refresh">>,
   <<"ip2", "/api/v1/admin/auth/login">>}
NoEntry == [exists |-> FALSE, timestamps |-> <<>>]

\* Employee rows.  e1 is a seeded employee with a password; e2 is the id of
\* the employee an admin may create.
EmployeeIds == {"e1", "e2"}
NoEmployeeRow == [exists |-> FALSE]
EmployeeRow(role) == [exists |-> TRUE, active |-> TRUE, role |-> role]
SeededEmployees ==
  [e \in EmployeeIds |-> IF e = "e1" THEN EmployeeRow("ADMIN")
                         ELSE NoEmployeeRow]

\* The store after seeding and the server after startup, with n requests
\* still to come.
BootFull(n, seeded, ledger, staff, keys, entries, log) ==
  /\ custStatus = [c \in Customers |-> "ACTIVE"]
  /\ accStatus = [a \in Accounts |-> "ACTIVE"]
  /\ balance = [a \in Accounts |-> seeded]
  /\ cards = [k \in CardIds |->
                IF k = "k1" THEN NewCard("k1", "a1", "DEBIT", CardDailyLimit)
                ELSE NoCard]
  /\ pastExpiry = {}
  /\ today = 0
  /\ txns = ledger
  /\ transfers = <<>>
  /\ payments = <<>>
  /\ withdrawals = <<>>
  /\ deposits = <<>>
  /\ timers = {}
  /\ idem = [k \in Keys |-> NoRecord]
  /\ audit = <<>>
  /\ pc = [p \in Procs |-> "idle"]
  /\ req = [p \in Procs |-> NoReq]
  /\ loc = [p \in Procs |-> NoLoc]
  /\ resp = [p \in Procs |-> Reply("OK", NoBody)]
  /\ budget = n
  /\ tokens = {}
  /\ issued = 0
  /\ sessions = [s \in SessionIds |-> NoSession]
  /\ employees = staff
  /\ apiTokens = keys
  /\ limiter = entries
  /\ clock = 0
  /\ admits = log
  /\ faults = {}
  /\ sweep = "idle"

BootWith(n, seeded, ledger) ==
  BootFull(n, seeded, ledger, SeededEmployees, <<>>,
           [k \in RateKeys |-> NoEntry], [k \in RateKeys |-> <<>>])

Boot(n) == BootWith(n, InitBalance, <<>>)

\* ------------------------------------------------------- transfer.service

\* createTransfer, lines 23-47: the checks on the two rows read.
TransferCheck(from, to, amount) ==
  IF ~from.exists THEN "NOT_FOUND"
  ELSE IF ~to.exists THEN "NOT_FOUND"
  ELSE IF from.status = "FROZEN" THEN "ACCOUNT_FROZEN"
  ELSE IF from.status = "CLOSED" THEN "ACCOUNT_CLOSED"
  ELSE IF to.status = "FROZEN" THEN "ACCOUNT_FROZEN"
  ELSE IF to.status = "CLOSED" THEN "ACCOUNT_CLOSED"
  ELSE IF from.currency # to.currency THEN "VALIDATION_ERROR"
  ELSE IF from.balance < amount THEN "INSUFFICIENT_FUNDS"
  ELSE "OK"

\* createTransfer, lines 10-21: the argument checks, then the first of the
\* two findUnique calls of Promise.all to be served (either may be).
TransferCall(p, r, first) ==
  IF r.amount <= 0 \/ r.fromAccountId = r.toAccountId
    THEN Throw(p, "VALIDATION_ERROR")
    ELSE Await(p, "transfer_read",
               [first |-> first,
                row |-> AccountRow(IF first = "from" THEN r.fromAccountId
                                   ELSE r.toAccountId)])

TransferStart(p, f, t, amount, first) ==
  LET r == [op |-> "transfer", fromAccountId |-> f, toAccountId |-> t,
            amount |-> amount, via |-> Direct]
  IN /\ Start(p, r)
     /\ TransferCall(p, r, first)
     /\ UNCHANGED <<storeVars, clockVars, sweepVars, limitVars, staffVars, authVars, ledgerVars, routeVars>>

\* The second findUnique, then the checks.
TransferRead(p) ==
  /\ Resume(p, "transfer_read")
  /\ LET r == req[p]
         from == IF loc[p].first = "from" THEN loc[p].row
                 ELSE AccountRow(r.fromAccountId)
         to == IF loc[p].first = "to" THEN loc[p].row
               ELSE AccountRow(r.toAccountId)
         code == TransferCheck(from, to, r.amount)
     IN IF code = "OK"
          THEN Await(p, "transfer_tx", NoLoc)
          ELSE Throw(p, code)
  /\ UNCHANGED <<storeVars, clockVars, sweepVars, limitVars, staffVars, authVars, ledgerVars, routeVars>>

\* A CREDIT row that records the balance before the credit.
TransferCreditStale(r, newTo) ==
  [accountId |-> r.toAccountId, type |-> "CREDIT", amount |-> r.amount,
   balanceAfter |-> newTo - r.amount, status |-> "COMPLETED"]

\* The DEBIT and CREDIT rows of a transfer (lines 62-82).
TransferDebit(r, newFrom) ==
  [accountId |-> r.fromAccountId, type |-> "DEBIT", amount |-> r.amount,
   balanceAfter |-> newFrom, status |-> "COMPLETED"]
TransferCredit(r, newTo) ==
  [accountId |-> r.toAccountId, type |-> "CREDIT", amount |-> r.amount,
   balanceAfter |-> newTo, status |-> "COMPLETED"]

\* createTransfer, lines 49-95: the transaction.
TransferTx(p) ==
  /\ Resume(p, "transfer_tx")
  /\ LET r == req[p]
         newFrom == balance[r.fromAccountId] - r.amount
         newTo == balance[r.toAccountId] + r.amount
         row == [id |-> Len(transfers) + 1, fromAccountId |-> r.fromAccountId,
                 toAccountId |-> r.toAccountId, amount |-> r.amount,
                 status |-> "COMPLETED"]
     IN /\ balance' = [balance EXCEPT ![r.fromAccountId] = newFrom,
                                      ![r.toAccountId] = newTo]
        /\ txns' = txns \o <<TransferDebit(r, newFrom), TransferCredit(r, newTo)>>
        /\ transfers' = Append(transfers, row)
        /\ Return(p, r, "CREATED", row)
  /\ UNCHANGED <<custStatus, accStatus, cards, clockVars, sweepVars, limitVars, staffVars, authVars, payments,
                 withdrawals, deposits, timers, routeVars>>

\* -------------------------------------------------------- payment.service

\* The checks of createPayment without the one on the balance.
PaymentCheckNoFunds(account, amount) ==
  IF amount <= 0 THEN "VALIDATION_ERROR"
  ELSE IF ~account.exists THEN "NOT_FOUND"
  ELSE IF account.status = "FROZEN" THEN "ACCOUNT_FROZEN"
  ELSE IF account.status = "CLOSED" THEN "ACCOUNT_CLOSED"
  ELSE "OK"

\* createPayment, lines 140-159: the argument and row checks.
PaymentCheck(account, amount) ==
  IF amount <= 0 THEN "VALIDATION_ERROR"
  ELSE IF ~account.exists THEN "NOT_FOUND"
  ELSE IF account.status = "FROZEN" THEN "ACCOUNT_FROZEN"
  ELSE IF account.status = "CLOSED" THEN "ACCOUNT_CLOSED"
  ELSE IF account.balance < amount THEN "INSUFFICIENT_FUNDS"
  ELSE "OK"

\* createPayment up to the transaction: findUnique, then the checks.
PaymentCall(p, r) ==
  LET code == PaymentCheck(AccountRow(r.accountId), r.amount)
  IN IF code = "OK" THEN Await(p, "payment_tx", NoLoc) ELSE Throw(p, code)

PaymentStart(p, a, amount) ==
  LET r == [op |-> "payment", accountId |-> a, amount |-> amount,
            via |-> Direct]
  IN /\ Start(p, r)
     /\ PaymentCall(p, r)
     /\ UNCHANGED <<storeVars, clockVars, sweepVars, limitVars, staffVars, authVars, ledgerVars, routeVars>>

\* createPayment, lines 161-211: the transaction, which also arms the
\* 5-second settlement timer.
PaymentTx(p) ==
  /\ Resume(p, "payment_tx")
  /\ LET r == req[p]
         newBal == balance[r.accountId] - r.amount
         row == [id |-> Len(payments) + 1, accountId |-> r.accountId,
                 amount |-> r.amount, status |-> "PENDING"]
     IN /\ balance' = [balance EXCEPT ![r.accountId] = newBal]
        /\ txns' = Append(txns, [accountId |-> r.accountId, type |-> "DEBIT",
                                 amount |-> r.amount, balanceAfter |-> newBal,
                                 status |-> "PENDING"])
        /\ payments' = Append(payments, row)
        /\ timers' = timers \cup {[payment |-> Len(payments) + 1,
                                   txn |-> Len(txns) + 1]}
        /\ Return(p, r, "CREATED", row)
  /\ UNCHANGED <<custStatus, accStatus, cards, clockVars, sweepVars, limitVars, staffVars, authVars, transfers,
                 withdrawals, deposits, routeVars>>

\* A callback that completes the Payment and leaves its Transaction.
PaymentSettleHalf(t) ==
  /\ t \in timers
  /\ payments' = [payments EXCEPT ![t.payment].status = "COMPLETED"]
  /\ timers' = timers \ {t}
  /\ UNCHANGED <<storeVars, clockVars, sweepVars, limitVars, staffVars, authVars, txns, transfers,
                 withdrawals, deposits, routeVars, procVars>>

\* The setTimeout callback, lines 193-208: one transaction flips the
\* Payment and its Transaction to COMPLETED.
PaymentSettle(t) ==
  /\ t \in timers
  /\ payments' = [payments EXCEPT ![t.payment].status = "COMPLETED"]
  /\ txns' = [txns EXCEPT ![t.txn].status = "COMPLETED"]
  /\ timers' = timers \ {t}
  /\ UNCHANGED <<storeVars, clockVars, sweepVars, limitVars, staffVars, authVars, transfers, withdrawals, deposits,
                 routeVars, procVars>>

\* index.ts, shutdown: on SIGTERM or SIGINT the process exits.  The pending
\* setTimeout callbacks and the handlers in flight go with it; the database
\* stays, and the next process starts with no timers.
Shutdown ==
  /\ timers' = {}
  /\ pc' = [p \in Procs |-> IF Idle(p) THEN pc[p] ELSE "idle"]
  /\ loc' = [p \in Procs |-> NoLoc]
  /\ UNCHANGED <<storeVars, clockVars, sweepVars, limitVars, staffVars, authVars, txns, transfers,
                 payments, withdrawals, deposits, routeVars, req, resp,
                 budget>>

\* -------------------------------------------------------- deposit.service

\* The checks of createDeposit without the one on the status.
DepositCheckAnyStatus(account, amount) ==
  IF amount <= 0 THEN "VALIDATION_ERROR"
  ELSE IF ~account.exists THEN "NOT_FOUND"
  ELSE "OK"

\* createDeposit, lines 313-325.
DepositCheck(account, amount) ==
  IF amount <= 0 THEN "VALIDATION_ERROR"
  ELSE IF ~account.exists THEN "NOT_FOUND"
  ELSE IF account.status # "ACTIVE"
    THEN (IF account.status = "FROZEN" THEN "ACCOUNT_FROZEN"
          ELSE "ACCOUNT_CLOSED")
  ELSE "OK"

DepositCall(p, r) ==
  LET code == DepositCheck(AccountRow(r.accountId), r.amount)
  IN IF code = "OK" THEN Await(p, "deposit_tx", NoLoc) ELSE Throw(p, code)

DepositStart(p, a, amount) ==
  LET r == [op |-> "deposit", accountId |-> a, amount |-> amount,
            via |-> Direct]
  IN /\ Start(p, r)
     /\ DepositCall(p, r)
     /\ UNCHANGED <<storeVars, clockVars, sweepVars, limitVars, staffVars, authVars, ledgerVars, routeVars>>

\* A deposit that raises the balance and creates no Transaction row.
DepositTxNoRow(p) ==
  /\ Resume(p, "deposit_tx")
  /\ LET r == req[p]
         row == [id |-> Len(deposits) + 1, accountId |-> r.accountId,
                 amount |-> r.amount, status |-> "COMPLETED"]
     IN /\ balance' = [balance EXCEPT ![r.accountId] = @ + r.amount]
        /\ deposits' = Append(deposits, row)
        /\ Return(p, r, "CREATED", row)
  /\ UNCHANGED <<custStatus, accStatus, cards, clockVars, sweepVars, limitVars,
                 staffVars, authVars, txns, transfers, payments, withdrawals,
                 timers, routeVars>>

\* createDeposit, lines 327-354: the transaction.
DepositTx(p) ==
  /\ Resume(p, "deposit_tx")
  /\ LET r == req[p]
         newBal == balance[r.accountId] + r.amount
         row == [id |-> Len(deposits) + 1, accountId |-> r.accountId,
                 amount |-> r.amount, status |-> "COMPLETED"]
     IN /\ balance' = [balance EXCEPT ![r.accountId] = newBal]
        /\ txns' = Append(txns, [accountId |-> r.accountId, type |-> "CREDIT",
                                 amount |-> r.amount, balanceAfter |-> newBal,
                                 status |-> "COMPLETED"])
        /\ deposits' = Append(deposits, row)
        /\ Return(p, r, "CREATED", row)
  /\ UNCHANGED <<custStatus, accStatus, cards, clockVars, sweepVars, limitVars, staffVars, authVars, transfers,
                 payments, withdrawals, timers, routeVars>>

\* ----------------------------------------------------- withdrawal.service

\* createWithdrawal, lines 9-31: the argument and row checks.
WithdrawalCheck(account, amount) ==
  IF amount <= 0 THEN "VALIDATION_ERROR"
  ELSE IF ~account.exists THEN "NOT_FOUND"
  ELSE IF account.status # "ACTIVE"
    THEN (IF account.status = "FROZEN" THEN "ACCOUNT_FROZEN"
          ELSE "ACCOUNT_CLOSED")
  ELSE IF account.balance < amount THEN "INSUFFICIENT_FUNDS"
  ELSE "OK"

\* Cards of the account that account.cards.find(...) can return: find takes
\* the first match in the order the rows were loaded, which is not fixed.
ActiveDebit(a) ==
  {k \in CardsOf(a) : cards[k].type = "DEBIT" /\ cards[k].status = "ACTIVE"}
UsableDebit(a) ==
  {k \in CardsOf(a) : cards[k].type = "DEBIT"
                        /\ cards[k].status \in {"ACTIVE", "BLOCKED"}}

\* A card gate that looks at the status of the cards and not at their
\* expiry.
AtmGateAnyExpiry(a) ==
  IF ActiveDebit(a) = {}
    THEN {[go |-> "fail", card |-> NoCardId]}
    ELSE {[go |-> "withdrawal_tx", card |-> k] : k \in ActiveDebit(a)}

\* createWithdrawal, lines 33-63: the ATM card gate on the rows read.  The
\* outcome is where the handler goes next: the transaction (with the card
\* whose limit applies), the EXPIRED flip of card k, or an error.
AtmGate(a) ==
  IF ActiveDebit(a) = {}
    THEN {[go |-> "withdrawal_expire", card |-> k] :
            k \in UsableDebit(a) \cap pastExpiry}
         \cup (IF UsableDebit(a) \ pastExpiry # {} \/ UsableDebit(a) = {}
                 THEN {[go |-> "fail", card |-> NoCardId]} ELSE {})
    ELSE {[go |-> IF k \in pastExpiry THEN "withdrawal_expire"
                  ELSE "withdrawal_tx",
           card |-> k] : k \in ActiveDebit(a)}

\* createWithdrawal up to the transaction.
WithdrawalCall(p, r) ==
  LET code == WithdrawalCheck(AccountRow(r.accountId), r.amount)
  IN IF code # "OK"
       THEN Throw(p, code)
       ELSE IF r.channel # "ATM"
         THEN Await(p, "withdrawal_tx", [card |-> NoCardId, dailyLimit |-> 0])
         ELSE \E g \in AtmGate(r.accountId) :
                IF g.go = "fail"
                  THEN Throw(p, "CARD_NOT_ACTIVE")
                  ELSE Await(p, g.go, [card |-> g.card,
                                       dailyLimit |-> cards[g.card].dailyLimit])

WithdrawalStart(p, a, amount, channel) ==
  LET r == [op |-> "withdrawal", accountId |-> a, amount |-> amount,
            channel |-> channel, via |-> Direct]
  IN /\ Start(p, r)
     /\ WithdrawalCall(p, r)
     /\ UNCHANGED <<storeVars, clockVars, sweepVars, limitVars, staffVars, authVars, ledgerVars, routeVars>>

\* Lines 49-50 and 60-61: the card is written EXPIRED, the call fails.
WithdrawalExpire(p) ==
  /\ Resume(p, "withdrawal_expire")
  /\ cards' = [cards EXCEPT ![loc[p].card].status = "EXPIRED"]
  /\ Throw(p, "CARD_NOT_ACTIVE")
  /\ UNCHANGED <<custStatus, accStatus, balance, clockVars, sweepVars, limitVars, staffVars, authVars, ledgerVars,
                 routeVars>>

\* The aggregate without its createdAt filter: ATM withdrawals of any day.
TodayAtmTotalEver(a) ==
  LET Mine(w) == /\ w.accountId = a
                 /\ w.channel = "ATM"
                 /\ w.status = "COMPLETED"
  IN SumAmounts(SelectSeq(withdrawals, Mine))

\* Lines 71-81: today's COMPLETED ATM withdrawals on the account.
TodayAtmTotal(a) ==
  LET Mine(w) == /\ w.accountId = a
                 /\ w.channel = "ATM"
                 /\ w.status = "COMPLETED"
                 /\ w.day >= today
  IN SumAmounts(SelectSeq(withdrawals, Mine))

\* createWithdrawal, lines 87-113: the decrement and the two rows created.
WithdrawalWrite(p, r) ==
  LET newBal == balance[r.accountId] - r.amount
      row == [id |-> Len(withdrawals) + 1, accountId |-> r.accountId,
              amount |-> r.amount, channel |-> r.channel,
              status |-> "COMPLETED", day |-> today]
  IN /\ balance' = [balance EXCEPT ![r.accountId] = newBal]
     /\ txns' = Append(txns, [accountId |-> r.accountId,
                              type |-> "DEBIT", amount |-> r.amount,
                              balanceAfter |-> newBal,
                              status |-> "COMPLETED"])
     /\ withdrawals' = Append(withdrawals, row)
     /\ Return(p, r, "CREATED", row)

\* createWithdrawal, lines 65-85: the transaction opens.  On an ATM
\* withdrawal its first statement is the aggregate of lines 71-79, which
\* reads the rows committed so far (no isolation level is asked for, so the
\* statements of two transactions interleave); the writes follow as a later
\* statement.  Any other channel goes to the writes at once.
WithdrawalTx(p) ==
  /\ Resume(p, "withdrawal_tx")
  /\ LET r == req[p]
     IN IF r.channel = "ATM" /\ loc[p].card # NoCardId
          THEN /\ IF TodayAtmTotal(r.accountId) + r.amount > loc[p].dailyLimit
                    THEN Throw(p, "DAILY_LIMIT_EXCEEDED")
                    ELSE Await(p, "withdrawal_commit", loc[p])
               /\ UNCHANGED <<balance, txns, withdrawals>>
          ELSE WithdrawalWrite(p, r)
  /\ UNCHANGED <<custStatus, accStatus, cards, clockVars, sweepVars, limitVars, staffVars, authVars, transfers,
                 payments, deposits, timers, routeVars>>

\* createWithdrawal, lines 87-113: the writes of an ATM withdrawal that
\* passed the daily-limit check, and the commit.
WithdrawalCommit(p) ==
  /\ Resume(p, "withdrawal_commit")
  /\ WithdrawalWrite(p, req[p])
  /\ UNCHANGED <<custStatus, accStatus, cards, clockVars, sweepVars, limitVars, staffVars, authVars, transfers,
                 payments, deposits, timers, routeVars>>

\* -------------------------------------------------------- account.service

\* getBalance: one read, whatever the account's status.
GetBalance(p, a) ==
  LET r == [op |-> "getBalance", accountId |-> a, via |-> Direct]
      account == AccountRow(a)
  IN /\ Start(p, r)
     /\ IF ~account.exists
          THEN Throw(p, "NOT_FOUND")
          ELSE Respond(p, Reply("OK", [accountId |-> a,
                                       balance |-> account.balance]))
     /\ UNCHANGED <<storeVars, clockVars, sweepVars, limitVars, staffVars, authVars, ledgerVars, routeVars>>

\* updateAccount, lines 178-185: the read and the check on the row read.
UpdateAccountCall(p, r) ==
  LET account == AccountRow(r.accountId)
  IN IF ~account.exists THEN Throw(p, "NOT_FOUND")
     ELSE IF account.status = "CLOSED" THEN Throw(p, "VALIDATION_ERROR")
     ELSE Await(p, "updateAccount_tx", NoLoc)

UpdateAccountStart(p, a, status) ==
  LET r == [op |-> "updateAccount", accountId |-> a, status |-> status,
            via |-> Direct]
  IN /\ Start(p, r)
     /\ UpdateAccountCall(p, r)
     /\ UNCHANGED <<storeVars, clockVars, sweepVars, limitVars, staffVars, authVars, ledgerVars, routeVars>>

\* updateMany({status: CANCELLED}) over the cards of a set of accounts.
CancelCardsOf(as) ==
  [k \in CardIds |->
     IF cards[k].exists /\ cards[k].accountId \in as
       THEN [cards[k] EXCEPT !.status = "CANCELLED"]
       ELSE cards[k]]

\* updateAccount, lines 187-202: the transaction.
UpdateAccountTx(p) ==
  /\ Resume(p, "updateAccount_tx")
  /\ LET r == req[p]
     IN /\ accStatus' = [accStatus EXCEPT ![r.accountId] = r.status]
        /\ cards' = IF r.status = "CLOSED" THEN CancelCardsOf({r.accountId})
                    ELSE cards
        /\ Return(p, r, "OK", [id |-> r.accountId, status |-> r.status])
  /\ UNCHANGED <<custStatus, balance, clockVars, sweepVars, limitVars, staffVars, authVars, ledgerVars, routeVars>>

\* ------------------------------------------------------- customer.service

\* updateCustomer, lines 121-124: the read.  The model carries no phone
\* numbers, so the uniqueness lookup of lines 126-131 is not made.
UpdateCustomerStart(p, c, status) ==
  LET r == [op |-> "updateCustomer", customerId |-> c, status |-> status,
            via |-> Direct]
  IN /\ Start(p, r)
     /\ IF c \notin Customers THEN Throw(p, "NOT_FOUND")
        ELSE Await(p, "updateCustomer_write", NoLoc)
     /\ UNCHANGED <<storeVars, clockVars, sweepVars, limitVars, staffVars, authVars, ledgerVars, routeVars>>

\* updateCustomer, lines 133-137: the update writes the data as given.
UpdateCustomerWrite(p) ==
  /\ Resume(p, "updateCustomer_write")
  /\ LET r == req[p]
     IN /\ custStatus' = [custStatus EXCEPT ![r.customerId] = r.status]
        /\ Return(p, r, "OK", [id |-> r.customerId, status |-> r.status])
  /\ UNCHANGED <<accStatus, balance, cards, clockVars, sweepVars, limitVars, staffVars, authVars, ledgerVars, routeVars>>

\* deleteCustomer, lines 142-149: the read of the customer and its accounts.
DeleteCustomerCall(p, r) ==
  IF r.customerId \notin Customers THEN Throw(p, "NOT_FOUND")
  ELSE Await(p, "deleteCustomer_tx", [accounts |-> AccountsOf(r.customerId)])

DeleteCustomerStart(p, c) ==
  LET r == [op |-> "deleteCustomer", customerId |-> c, via |-> Direct]
  IN /\ Start(p, r)
     /\ DeleteCustomerCall(p, r)
     /\ UNCHANGED <<storeVars, clockVars, sweepVars, limitVars, staffVars, authVars, ledgerVars, routeVars>>

\* The transaction without the deleteMany of the refresh tokens.
DeleteCustomerTxKeepTokens(p) ==
  /\ Resume(p, "deleteCustomer_tx")
  /\ LET r == req[p]
     IN /\ accStatus' = [a \in Accounts |->
                           IF AccountCustomer(a) = r.customerId THEN "CLOSED"
                           ELSE accStatus[a]]
        /\ cards' = CancelCardsOf(loc[p].accounts)
        /\ custStatus' = [custStatus EXCEPT ![r.customerId] = "CLOSED"]
        /\ Return(p, r, "OK", [kind |-> "message"])
  /\ UNCHANGED <<balance, clockVars, sweepVars, limitVars, staffVars, authVars, ledgerVars, routeVars>>

\* deleteCustomer, lines 151-174: the transaction.
DeleteCustomerTx(p) ==
  /\ Resume(p, "deleteCustomer_tx")
  /\ LET r == req[p]
     IN /\ accStatus' = [a \in Accounts |->
                           IF AccountCustomer(a) = r.customerId THEN "CLOSED"
                           ELSE accStatus[a]]
        /\ cards' = CancelCardsOf(loc[p].accounts)
        /\ tokens' = {row \in tokens :
                        ~(row.kind = "customer"
                            /\ row.principal = r.customerId)}
        /\ custStatus' = [custStatus EXCEPT ![r.customerId] = "CLOSED"]
        /\ Return(p, r, "OK", [kind |-> "message"])
  /\ UNCHANGED <<balance, clockVars, sweepVars, limitVars, staffVars, issued, sessions, ledgerVars, routeVars>>

\* ----------------------------------------------------------- card.service

\* data.dailyLimit ?? 500000
DefaultDailyLimit == 500000

\* createCard, lines 72-76: the account read and its checks.
CreateCardCall(p, r) ==
  LET account == AccountRow(r.accountId)
  IN IF ~account.exists THEN Throw(p, "NOT_FOUND")
     ELSE IF account.status # "ACTIVE" THEN Throw(p, "VALIDATION_ERROR")
     ELSE Await(p, "createCard_create", NoLoc)

CreateCardStart(p, a, type, limit) ==
  LET r == [op |-> "createCard", accountId |-> a, type |-> type,
            dailyLimit |-> limit, via |-> Direct]
  IN /\ Start(p, r)
     /\ CreateCardCall(p, r)
     /\ UNCHANGED <<storeVars, clockVars, sweepVars, limitVars, staffVars, authVars, ledgerVars, routeVars>>

\* What createCard returns (lines 101-114): the row with the number and the
\* CVV as generated, not as stored.
CreateCardResult(row) ==
  [id |-> row.id, accountId |-> row.accountId,
   cardNumber |-> PlainNumber(row.id), maskedNumber |-> row.maskedNumber,
   cvv |-> PlainCvv(row.id), type |-> row.type, status |-> row.status,
   dailyLimit |-> row.dailyLimit]

\* createCard, lines 78-114: a number no card has, then the insert.
CreateCardCreate(p) ==
  /\ Resume(p, "createCard_create")
  /\ \E k \in CardIds :
       /\ ~cards[k].exists
       /\ LET r == req[p]
              row == NewCard(k, r.accountId, r.type,
                             IF r.dailyLimit.given THEN r.dailyLimit.value
                             ELSE DefaultDailyLimit)
          IN /\ cards' = [cards EXCEPT ![k] = row]
             /\ Return(p, r, "CREATED", CreateCardResult(row))
  /\ UNCHANGED <<custStatus, accStatus, balance, clockVars, sweepVars, limitVars, staffVars, authVars, ledgerVars,
                 routeVars>>

\* isCardExpired: the last day of the card's expiry month is behind us.
IsCardExpired(k) == k \in pastExpiry

\* The checks of updateCard without those on a CANCELLED or EXPIRED card.
UpdateCardCheckLoose(card, status, limit) ==
  IF status # "none" /\ card.status = "ACTIVE" /\ status # "BLOCKED"
    THEN "VALIDATION_ERROR"
  ELSE IF status # "none" /\ card.status = "BLOCKED" /\ status # "ACTIVE"
    THEN "VALIDATION_ERROR"
  ELSE IF limit.given /\ limit.value <= 0 THEN "VALIDATION_ERROR"
  ELSE "OK"

\* updateCard, lines 193-210: the checks on the row read.
UpdateCardCheck(card, status, limit) ==
  IF status # "none" /\ card.status = "CANCELLED" THEN "CARD_NOT_ACTIVE"
  ELSE IF status # "none" /\ card.status = "EXPIRED" THEN "CARD_NOT_ACTIVE"
  ELSE IF status # "none" /\ card.status = "ACTIVE" /\ status # "BLOCKED"
    THEN "VALIDATION_ERROR"
  ELSE IF status # "none" /\ card.status = "BLOCKED" /\ status # "ACTIVE"
    THEN "VALIDATION_ERROR"
  ELSE IF limit.given /\ limit.value <= 0 THEN "VALIDATION_ERROR"
  ELSE "OK"

\* updateCard, lines 183-210: the read, the expiry check and the checks.
UpdateCardStart(p, k, status, limit) ==
  LET r == [op |-> "updateCard", cardId |-> k, status |-> status,
            dailyLimit |-> limit, via |-> Direct]
      card == CardRow(k)
  IN /\ Start(p, r)
     /\ IF ~card.exists THEN Throw(p, "NOT_FOUND")
        ELSE IF IsCardExpired(k) /\ card.status \notin {"EXPIRED", "CANCELLED"}
          THEN Await(p, "updateCard_expire", NoLoc)
        ELSE IF UpdateCardCheck(card, status, limit) # "OK"
          THEN Throw(p, UpdateCardCheck(card, status, limit))
        ELSE Await(p, "updateCard_write", NoLoc)
     /\ UNCHANGED <<storeVars, clockVars, sweepVars, limitVars, staffVars, authVars, ledgerVars, routeVars>>

\* updateCard, lines 188-189: the card is written EXPIRED, the call fails.
UpdateCardExpire(p) ==
  /\ Resume(p, "updateCard_expire")
  /\ cards' = [cards EXCEPT ![req[p].cardId].status = "EXPIRED"]
  /\ Throw(p, "CARD_NOT_ACTIVE")
  /\ UNCHANGED <<custStatus, accStatus, balance, clockVars, sweepVars, limitVars, staffVars, authVars, ledgerVars,
                 routeVars>>

\* updateCard, lines 212-220: the fields given are written.
UpdateCardWrite(p) ==
  /\ Resume(p, "updateCard_write")
  /\ LET r == req[p]
         old == cards[r.cardId]
         new == [old EXCEPT
                   !.status = IF r.status # "none" THEN r.status ELSE @,
                   !.dailyLimit = IF r.dailyLimit.given
                                    THEN r.dailyLimit.value ELSE @]
     IN /\ cards' = [cards EXCEPT ![r.cardId] = new]
        /\ Return(p, r, "OK", CardPublic(new))
  /\ UNCHANGED <<custStatus, accStatus, balance, clockVars, sweepVars, limitVars, staffVars, authVars, ledgerVars,
                 routeVars>>

\* deleteCard, lines 224-225 and 227: the read.
DeleteCardStart(p, k) ==
  LET r == [op |-> "deleteCard", cardId |-> k, via |-> Direct]
      card == CardRow(k)
  IN /\ Start(p, r)
     /\ IF ~card.exists THEN Throw(p, "NOT_FOUND")
        ELSE IF card.status # "CANCELLED"
          THEN Await(p, "deleteCard_write", NoLoc)
        ELSE Respond(p, Reply("OK", [kind |-> "message"]))
     /\ UNCHANGED <<storeVars, clockVars, sweepVars, limitVars, staffVars, authVars, ledgerVars, routeVars>>

\* deleteCard, lines 228-231: the update.
DeleteCardWrite(p) ==
  /\ Resume(p, "deleteCard_write")
  /\ cards' = [cards EXCEPT ![req[p].cardId].status = "CANCELLED"]
  /\ Return(p, req[p], "OK", [kind |-> "message"])
  /\ UNCHANGED <<custStatus, accStatus, balance, clockVars, sweepVars, limitVars, staffVars, authVars, ledgerVars,
                 routeVars>>

\* ------------------------------------------------ bot route: block a card

\* The employee every admin and bot request of the model is made by.
Employee == "e1"

AuditRow(action, entityType, entityId, details) ==
  [employeeId |-> Employee, action |-> action, entityType |-> entityType,
   entityId |-> entityId, details |-> details]

\* The read of block-card without the check of the card's customer.
BlockCardStartAnyOwner(p, c, k) ==
  LET r == [op |-> "blockCard", customerId |-> c, cardId |-> k,
            via |-> Direct]
      card == CardRow(k)
  IN /\ Start(p, r)
     /\ IF ~card.exists THEN Throw(p, "NOT_FOUND")
        ELSE IF card.status # "ACTIVE" THEN Throw(p, "VALIDATION_ERROR")
        ELSE Await(p, "blockCard_write", [maskedNumber |-> card.maskedNumber])
     /\ UNCHANGED <<storeVars, clockVars, sweepVars, limitVars, staffVars, authVars, ledgerVars, routeVars>>

\* POST /cards/:id/block, lines 285-300: the read and its checks.
BlockCardStart(p, c, k) ==
  LET r == [op |-> "blockCard", customerId |-> c, cardId |-> k,
            via |-> Direct]
      card == CardRow(k)
  IN /\ Start(p, r)
     /\ IF ~card.exists THEN Throw(p, "NOT_FOUND")
        ELSE IF AccountCustomer(card.accountId) # c THEN Throw(p, "NOT_FOUND")
        ELSE IF card.status # "ACTIVE" THEN Throw(p, "VALIDATION_ERROR")
        ELSE Await(p, "blockCard_write", [maskedNumber |-> card.maskedNumber])
     /\ UNCHANGED <<storeVars, clockVars, sweepVars, limitVars, staffVars, authVars, ledgerVars, routeVars>>

\* Lines 302-316: the update.
BlockCardWrite(p) ==
  /\ Resume(p, "blockCard_write")
  /\ LET new == [cards[req[p].cardId] EXCEPT !.status = "BLOCKED"]
     IN /\ cards' = [cards EXCEPT ![req[p].cardId] = new]
        /\ Await(p, "blockCard_audit",
                 [maskedNumber |-> loc[p].maskedNumber,
                  updated |-> CardPublic(new)])
  /\ UNCHANGED <<custStatus, accStatus, balance, clockVars, sweepVars, limitVars, staffVars, authVars, ledgerVars,
                 routeVars>>

\* Lines 318-325: the audit row, then the response.
BlockCardAudit(p) ==
  /\ Resume(p, "blockCard_audit")
  /\ audit' = Append(audit,
                AuditRow("BOT_CARD_BLOCKED", "Card", req[p].cardId,
                         [customerId |-> req[p].customerId,
                          maskedNumber |-> loc[p].maskedNumber]))
  /\ Respond(p, Json(StatusOf("OK"), loc[p].updated))
  /\ UNCHANGED <<storeVars, clockVars, sweepVars, limitVars, staffVars, authVars, ledgerVars, idem>>

\* The scoped reads of the bot: GET /customer, /accounts, /cards and
\* /accounts/:id/transactions, for the customer c of the bot session token.
BotReads == {"customer", "accounts", "cards", "transactions"}

BotData(kind, c) ==
  CASE kind = "customer" -> [id |-> c, status |-> custStatus[c]]
    [] kind = "accounts" -> [data |-> {AccountRow(a) : a \in AccountsOf(c)}]
    [] kind = "cards" ->
         [data |-> {CardPublic(cards[k]) :
                      k \in UNION {CardsOf(a) : a \in AccountsOf(c)}}]

\* The handler's first database call; the three lists-and-profile routes
\* answer with what it returns, the transactions route checks the account.
BotGetStart(p, c, kind, id) ==
  LET r == [op |-> "botGet", customerId |-> c, kind |-> kind, id |-> id,
            via |-> Direct]
      account == AccountRow(id)
  IN /\ Start(p, r)
     /\ IF kind # "transactions"
          THEN Respond(p, Json(StatusOf("OK"), BotData(kind, c)))
          ELSE IF ~account.exists \/ account.customerId # c
            THEN Throw(p, "NOT_FOUND")
            ELSE Await(p, "bot_transactions", NoLoc)
     /\ UNCHANGED <<storeVars, clockVars, sweepVars, limitVars, staffVars, authVars, ledgerVars, routeVars>>

\* GET /accounts/:id/transactions, lines 237-258: the rows of the account.
BotTransactions(p) ==
  /\ Resume(p, "bot_transactions")
  /\ Respond(p, Json(StatusOf("OK"),
                     [data |-> SelectSeq(txns,
                                 LAMBDA t : t.accountId = req[p].id)]))
  /\ UNCHANGED <<storeVars, clockVars, sweepVars, limitVars, staffVars, authVars, ledgerVars, routeVars>>

\* ------------------------------------------ lib/auth, the auth middlewares

\* The type claim of a token: the three the server signs, and none at all.
TokenTypes == {"customer", "employee", "bot_session"}
NoType == "none"

\* A JWT as a middleware sees it: its type claim, whether its signature is
\* the server's, and whether its exp has passed.
Jwts ==
  [type : TokenTypes \cup {NoType}, signed : BOOLEAN, expired : BOOLEAN]

\* The Authorization header: absent, of another scheme, or a bearer token.
NoHeader == [scheme |-> "none"]
Headers ==
  {NoHeader, [scheme |-> "Basic"]}
    \cup {[scheme |-> "Bearer", token |-> t] : t \in Jwts}

\* verify(token, JWT_SECRET, 'HS256') of hono/jwt: throws on a signature
\* that is not the server's and on a token past its exp.
Verify(t) == t.signed /\ ~t.expired

\* A verification of the customer token that does not look at the type.
VerifyAccessTokenAnyType(t) == Verify(t)

\* verifyAccessToken: a token with no type claim passes.
VerifyAccessToken(t) ==
  Verify(t) /\ ~(t.type # NoType /\ t.type # "customer")
VerifyEmployeeAccessToken(t) == Verify(t) /\ t.type = "employee"
VerifyBotSessionToken(t) == Verify(t) /\ t.type = "bot_session"

\* The routes behind authMiddleware, adminAuthMiddleware and
\* botSessionMiddleware.
Surfaces == {"customer", "admin", "bot"}

\* The three middlewares: TRUE when next() is called, FALSE when 401
\* UNAUTHORIZED is thrown.
Middleware(surface, header) ==
  /\ header.scheme = "Bearer"
  /\ CASE surface = "customer" -> VerifyAccessToken(header.token)
       [] surface = "admin" -> VerifyEmployeeAccessToken(header.token)
       [] surface = "bot" -> VerifyBotSessionToken(header.token)

\* A request to a route of the surface: the middleware, then the handler.
Authenticate(p, surface, header) ==
  /\ Start(p, [op |-> "authenticate", surface |-> surface,
               header |-> header, via |-> Direct])
  /\ IF Middleware(surface, header)
       THEN Respond(p, Json(StatusOf("OK"), [surface |-> surface]))
       ELSE Throw(p, "UNAUTHORIZED")
  /\ UNCHANGED <<storeVars, clockVars, sweepVars, limitVars, staffVars, authVars, ledgerVars, routeVars>>

\* ----------------------------------------- auth.service, admin-auth.service

\* The two refresh-token tables, and who a token of each can belong to.
Kinds == {"customer", "employee"}
Employees == {Employee}
NoEmployee == "e0"
PrincipalsOf(kind) == IF kind = "customer" THEN Customers ELSE Employees

\* hashToken: the SHA-256 digest a refresh token is stored and looked up by.
HashToken(t) == [form |-> "sha256", of |-> t]

\* randomUUID: a value no earlier call has produced.
RandomUUID == issued + 1

\* findUnique({where: {token}}) on the table of the kind: the rows found
\* (the token column is unique, so at most one).
TokenRows(kind, t) ==
  {row \in tokens : row.kind = kind /\ row.token = HashToken(t)}

\* The row a login or a rotation creates for the value v.
NewToken(kind, who, v) ==
  [id |-> v, kind |-> kind, principal |-> who, token |-> HashToken(v),
   expired |-> FALSE]

\* signAccessToken / signEmployeeAccessToken.
AccessToken(kind, who) == [type |-> kind, sub |-> who]

LoginCall(p, r) ==
  LET who == r.principal
      known == who \in PrincipalsOf(r.kind)
      active == IF r.kind = "customer" THEN custStatus[who] = "ACTIVE"
                ELSE /\ employees[who].exists
                     /\ employees[who].active
                     /\ employees[who].role # "BOT"
  IN IF known /\ active /\ r.valid
       THEN Await(p, "login_create", NoLoc)
       ELSE Throw(p, "UNAUTHORIZED")

\* login up to its create: the principal is looked up and the credentials
\* checked (an unknown e-mail, a customer that is not ACTIVE and a wrong
\* password are all answered alike).
LoginStart(p, kind, who, valid) ==
  LET r == [op |-> "login", kind |-> kind, principal |-> who,
            valid |-> valid, via |-> Direct]
  IN /\ Start(p, r)
     /\ LoginCall(p, r)
     /\ UNCHANGED <<storeVars, clockVars, sweepVars, limitVars, staffVars, authVars, ledgerVars, routeVars>>

\* login: the refresh-token row is created and both tokens are returned.
LoginCreate(p) ==
  /\ Resume(p, "login_create")
  /\ LET r == req[p]
         v == RandomUUID
     IN /\ tokens' = tokens \cup {NewToken(r.kind, r.principal, v)}
        /\ issued' = v
        /\ Respond(p, Reply("OK",
                     [accessToken |-> AccessToken(r.kind, r.principal),
                      refreshToken |-> v]))
  /\ UNCHANGED <<storeVars, clockVars, sweepVars, limitVars, staffVars, sessions, ledgerVars, routeVars>>

\* refresh up to its first write: the lookup by hash and the expiry test.
RefreshCall(p, r) ==
  LET found == TokenRows(r.kind, r.token)
  IN IF found = {}
       THEN Throw(p, "UNAUTHORIZED")
       ELSE \E record \in found :
              Await(p, IF record.expired THEN "refresh_expire"
                       ELSE "refresh_rotate",
                    [record |-> record])

RefreshStart(p, kind, t) ==
  LET r == [op |-> "refresh", kind |-> kind, token |-> t, via |-> Direct]
  IN /\ Start(p, r)
     /\ RefreshCall(p, r)
     /\ UNCHANGED <<storeVars, clockVars, sweepVars, limitVars, staffVars, authVars, ledgerVars, routeVars>>

\* refresh of an expired token: delete({where: {id}}), then 401.  A delete
\* of a row that is gone throws, which the error boundary answers with 500.
RefreshExpire(p) ==
  /\ Resume(p, "refresh_expire")
  /\ IF loc[p].record \in tokens
       THEN /\ tokens' = tokens \ {loc[p].record}
            /\ Throw(p, "UNAUTHORIZED")
       ELSE /\ UNCHANGED tokens
            /\ Throw(p, "INTERNAL_ERROR")
  /\ UNCHANGED <<storeVars, clockVars, sweepVars, limitVars, staffVars, issued, sessions, ledgerVars, routeVars>>

\* The rotation with a delete that tolerates a row that is gone.
RefreshRotateLenient(p) ==
  /\ Resume(p, "refresh_rotate")
  /\ LET record == loc[p].record
         v == RandomUUID
     IN /\ tokens' = (tokens \ {record})
                       \cup {NewToken(record.kind, record.principal, v)}
        /\ issued' = v
        /\ Respond(p, Reply("OK",
                     [accessToken |-> AccessToken(record.kind,
                                                  record.principal),
                      refreshToken |-> v]))
  /\ UNCHANGED <<storeVars, clockVars, sweepVars, limitVars, staffVars, sessions, ledgerVars, routeVars>>

\* refresh: the rotation, $transaction([delete, create]), and the answer.
\* The delete of a row that is gone throws and the batch rolls back.
RefreshRotate(p) ==
  /\ Resume(p, "refresh_rotate")
  /\ LET record == loc[p].record
         v == RandomUUID
     IN IF record \in tokens
          THEN /\ tokens' = (tokens \ {record})
                              \cup {NewToken(record.kind, record.principal, v)}
               /\ issued' = v
               /\ Respond(p, Reply("OK",
                            [accessToken |-> AccessToken(record.kind,
                                                         record.principal),
                             refreshToken |-> v]))
          ELSE /\ UNCHANGED <<tokens, issued>>
               /\ Throw(p, "INTERNAL_ERROR")
  /\ UNCHANGED <<storeVars, clockVars, sweepVars, limitVars, staffVars, sessions, ledgerVars, routeVars>>

\* logout: deleteMany({where: {token}}), which deletes what it finds.
Logout(p, kind, t) ==
  LET r == [op |-> "logout", kind |-> kind, token |-> t, via |-> Direct]
  IN /\ Start(p, r)
     /\ tokens' = tokens \ TokenRows(kind, t)
     /\ Respond(p, Reply("OK", [message |-> "Logged out successfully"]))
     /\ UNCHANGED <<storeVars, clockVars, sweepVars, limitVars, staffVars, issued, sessions, ledgerVars, routeVars>>

\* The clock passes the expiresAt of a refresh token (seven days).
TokenExpires(row) ==
  /\ row \in tokens
  /\ ~row.expired
  /\ tokens' = (tokens \ {row}) \cup {[row EXCEPT !.expired = TRUE]}
  /\ UNCHANGED <<storeVars, clockVars, sweepVars, limitVars, staffVars, issued, sessions, ledgerVars, routeVars,
                 procVars>>

\* ------------------------------------------------- middleware/rate-limit

\* WINDOW_MS, in minutes, and MAX_REQUESTS.
WindowMinutes == 15
MaxPerWindow == 10

\* A window that still holds a timestamp that is exactly 15 minutes old.
InWindowInclusive(now, t) == now - t <= WindowMinutes

\* now - t < WINDOW_MS
InWindow(now, t) == now - t < WindowMinutes

\* timestamps.filter((t) => now - t < WINDOW_MS)
Filtered(timestamps, now) == SelectSeq(timestamps, LAMBDA t : InWindow(now, t))

TooManyRequests ==
  [status |-> 429, code |-> "RATE_LIMIT_EXCEEDED", body |-> NoBody]

\* POST /admin/auth/login and POST /admin/auth/refresh from client ip:
\* rateLimiter(), which runs without an await, then the handler.
RateLimited(p, ip, r) ==
  LET key == <<ip, r.path>>
      live == Filtered(limiter[key].timestamps, clock)
      q == [r EXCEPT !.via = Direct] @@ [ip |-> ip]
  IN /\ Start(p, q)
     /\ IF Len(live) >= MaxPerWindow
          THEN /\ limiter' = [limiter EXCEPT ![key] =
                                [exists |-> TRUE, timestamps |-> live]]
               /\ Respond(p, TooManyRequests)
               /\ UNCHANGED admits
          ELSE /\ limiter' = [limiter EXCEPT ![key] =
                                [exists |-> TRUE,
                                 timestamps |-> Append(live, clock)]]
               /\ admits' = [admits EXCEPT ![key] = Append(@, clock)]
               /\ IF q.op = "login" THEN LoginCall(p, q)
                  ELSE RefreshCall(p, q)
     /\ UNCHANGED <<storeVars, clockVars, sweepVars, clock, staffVars, authVars, ledgerVars,
                    routeVars>>

LoginPost(who, valid) ==
  [op |-> "login", kind |-> "employee", principal |-> who, valid |-> valid,
   path |-> "/api/v1/admin/auth/login", via |-> Direct]
RefreshPost(t) ==
  [op |-> "refresh", kind |-> "employee", token |-> t,
   path |-> "/api/v1/admin/auth/refresh", via |-> Direct]

\* The setInterval callback, every 60 seconds: each entry is filtered, and
\* deleted if nothing is left.
Sweep ==
  /\ limiter' =
       [k \in RateKeys |->
          LET live == Filtered(limiter[k].timestamps, clock)
          IN IF limiter[k].exists /\ live # <<>>
               THEN [exists |-> TRUE, timestamps |-> live]
               ELSE NoEntry]
  /\ UNCHANGED <<storeVars, clockVars, sweepVars, clock, admits, staffVars, authVars,
                 ledgerVars, routeVars, procVars>>

\* Date.now() moves on by d minutes.
ClockAdvances(d) ==
  /\ clock + d <= MaxMinutes
  /\ clock' = clock + d
  /\ UNCHANGED <<storeVars, clockVars, sweepVars, limiter, admits, staffVars, authVars,
                 ledgerVars, routeVars, procVars>>

\* ------------------------------------ employee.service, api-token.service

\* employee.findUnique({where: {id}}): the row, or null.
EmployeeOf(e) == IF e \in EmployeeIds THEN employees[e] ELSE NoEmployeeRow

\* An ApiToken row; its id and its raw token are its place in the table.
NewApiToken(e) == [employeeId |-> e, active |-> TRUE]
ActiveTokensOf(e) ==
  {i \in DOMAIN apiTokens :
     apiTokens[i].employeeId = e /\ apiTokens[i].active}

\* apiToken.updateMany({where: {employeeId, active: true},
\* data: {active: false}}).
Revoked(e) ==
  [i \in DOMAIN apiTokens |->
     IF apiTokens[i].employeeId = e
       THEN [apiTokens[i] EXCEPT !.active = FALSE] ELSE apiTokens[i]]

\* createEmployee up to the create: the uniqueness check, and the password
\* a non-BOT employee needs.
CreateEmployeeStart(p, e, role, password) ==
  LET r == [op |-> "createEmployee", employeeId |-> e, role |-> role,
            password |-> password, via |-> Direct]
  IN /\ Start(p, r)
     /\ IF employees[e].exists THEN Throw(p, "CONFLICT")
        ELSE IF role # "BOT" /\ ~password THEN Throw(p, "VALIDATION_ERROR")
        ELSE Await(p, "createEmployee_create", NoLoc)
     /\ UNCHANGED <<storeVars, clockVars, sweepVars, limitVars, staffVars, authVars, ledgerVars, routeVars>>

\* createEmployee: employee.create; the unique columns refuse a second row.
CreateEmployeeCreate(p) ==
  /\ Resume(p, "createEmployee_create")
  /\ LET r == req[p]
     IN IF employees[r.employeeId].exists
          THEN /\ Throw(p, "INTERNAL_ERROR")
               /\ UNCHANGED employees
          ELSE /\ employees' = [employees EXCEPT ![r.employeeId] =
                                  EmployeeRow(r.role)]
               /\ IF r.role = "BOT"
                    THEN Await(p, "createEmployee_token", NoLoc)
                    ELSE Respond(p, Reply("CREATED", [id |-> r.employeeId]))
  /\ UNCHANGED <<storeVars, clockVars, sweepVars, limitVars, apiTokens, authVars, ledgerVars, routeVars>>

\* createEmployee of a BOT: generateApiToken.
CreateEmployeeToken(p) ==
  /\ Resume(p, "createEmployee_token")
  /\ apiTokens' = Append(apiTokens, NewApiToken(req[p].employeeId))
  /\ Respond(p, Reply("CREATED", [id |-> req[p].employeeId,
                                  rawApiToken |-> Len(apiTokens) + 1]))
  /\ UNCHANGED <<storeVars, clockVars, sweepVars, limitVars, employees, authVars, ledgerVars, routeVars>>

\* deactivateEmployee up to its transaction.
DeactivateEmployeeStart(p, e) ==
  LET r == [op |-> "deactivateEmployee", employeeId |-> e, via |-> Direct]
  IN /\ Start(p, r)
     /\ IF ~EmployeeOf(e).exists THEN Throw(p, "NOT_FOUND")
        ELSE Await(p, "deactivateEmployee_tx", NoLoc)
     /\ UNCHANGED <<storeVars, clockVars, sweepVars, limitVars, staffVars, authVars, ledgerVars, routeVars>>

\* deactivateEmployee: $transaction([employee.update, apiToken.updateMany,
\* employeeRefreshToken.deleteMany]).
DeactivateEmployeeTx(p) ==
  /\ Resume(p, "deactivateEmployee_tx")
  /\ LET e == req[p].employeeId
     IN /\ employees' = [employees EXCEPT ![e].active = FALSE]
        /\ apiTokens' = Revoked(e)
        /\ tokens' = {row \in tokens :
                        ~(row.kind = "employee" /\ row.principal = e)}
  /\ Respond(p, Reply("OK", [message |-> "Employee deactivated"]))
  /\ UNCHANGED <<storeVars, clockVars, sweepVars, limitVars, issued, sessions, ledgerVars, routeVars>>

\* POST /employees/:id/regenerate-token up to regenerateApiToken: getEmployee
\* and the role of the employee.
RegenerateStart(p, e) ==
  LET r == [op |-> "regenerateApiToken", employeeId |-> e, via |-> Direct]
  IN /\ Start(p, r)
     /\ IF ~EmployeeOf(e).exists THEN Throw(p, "NOT_FOUND")
        ELSE IF EmployeeOf(e).role # "BOT" THEN Throw(p, "VALIDATION_ERROR")
        ELSE Await(p, "regenerate_revoke", NoLoc)
     /\ UNCHANGED <<storeVars, clockVars, sweepVars, limitVars, staffVars, authVars, ledgerVars, routeVars>>

\* regenerateApiToken: the updateMany that revokes the employee's tokens.
RegenerateRevoke(p) ==
  /\ Resume(p, "regenerate_revoke")
  /\ apiTokens' = Revoked(req[p].employeeId)
  /\ Await(p, "regenerate_create", NoLoc)
  /\ UNCHANGED <<storeVars, clockVars, sweepVars, limitVars, employees, authVars, ledgerVars, routeVars>>

\* regenerateApiToken: generateApiToken, and the route's answer.
RegenerateCreate(p) ==
  /\ Resume(p, "regenerate_create")
  /\ apiTokens' = Append(apiTokens, NewApiToken(req[p].employeeId))
  /\ Respond(p, Reply("OK", [rawApiToken |-> Len(apiTokens) + 1]))
  /\ UNCHANGED <<storeVars, clockVars, sweepVars, limitVars, employees, authVars, ledgerVars, routeVars>>

\* botApiTokenMiddleware with validateApiToken up to its write: the token
\* read with its employee.  Raw token 0 is one that was never issued.
ValidateApiTokenStart(p, t) ==
  LET r == [op |-> "validateApiToken", token |-> t, via |-> Direct]
  IN /\ Start(p, r)
     /\ IF t \notin DOMAIN apiTokens THEN Throw(p, "UNAUTHORIZED")
        ELSE IF ~apiTokens[t].active THEN Throw(p, "UNAUTHORIZED")
        ELSE IF ~employees[apiTokens[t].employeeId].active
          THEN Throw(p, "UNAUTHORIZED")
        ELSE Await(p, "validate_touch",
                   [employeeId |-> apiTokens[t].employeeId,
                    role |-> employees[apiTokens[t].employeeId].role])
     /\ UNCHANGED <<storeVars, clockVars, sweepVars, limitVars, staffVars, authVars, ledgerVars, routeVars>>

\* validateApiToken: lastUsedAt is stamped; the middleware then lets the
\* employee through if it is a BOT.
ValidateApiTokenTouch(p) ==
  /\ Resume(p, "validate_touch")
  /\ IF loc[p].role # "BOT" THEN Throw(p, "FORBIDDEN")
     ELSE Respond(p, Reply("OK", [employeeId |-> loc[p].employeeId]))
  /\ UNCHANGED <<storeVars, clockVars, sweepVars, limitVars, staffVars, authVars, ledgerVars, routeVars>>

\* --------------------------------------------------- verification.service

\* Confidence is a double.  It is kept as the exact decimal value, counted
\* in units of 1/Scale, with a mark for a rounded sum that lies just under
\* that value: the weights are not binary fractions, and a sum whose
\* decimal value is exactly the threshold comes out of the additions as
\* 0.75, 0.7500000000000001 or 0.7499999999999999, depending on the order.
Scale == 200
Exactly(n) == [units |-> n, short |-> FALSE]
JustUnder(n) == [units |-> n, short |-> TRUE]
Hundredths(n) == (n * Scale) \div 100

\* newConfidence >= 0.75
Threshold == Hundredths(75)
ReachesThreshold(x) ==
  x.units > Threshold \/ (x.units = Threshold /\ ~x.short)

\* ALL_QUESTIONS: the ids and the weights.
QuestionIds ==
  {"last_txn_amount", "account_number", "card_last_four", "date_of_birth",
   "phone_number", "email", "address", "full_name"}
NoQuestion == "none"

\* Every question weighing as much as a date of birth.
WeightFlat(q) == Hundredths(15)

Weight(q) ==
  CASE q = "last_txn_amount" -> Hundredths(30)
    [] q \in {"account_number", "card_last_four"} -> Hundredths(25)
    [] q \in {"date_of_birth", "phone_number", "email", "address"}
         -> Hundredths(15)
    [] q = "full_name" -> Hundredths(10)

\* The answers a caller can give: the right one, a wrong one, a blank one
\* (white space only), and none (the field is missing or empty).
Answers == {"right", "wrong", " ", ""}

PhoneCustomer(ph) ==
  IF ph = "ph1" THEN "c1" ELSE IF ph = "ph2" THEN "c2" ELSE NoCustomer

\* customer.accounts.some((a) => a.cards.length > 0)
HasCards(c) == \E a \in AccountsOf(c) : CardsOf(a) # {}

\* The include of answerQuestion: some account of the customer has a
\* COMPLETED transaction.
HasTransaction(c) ==
  \E i \in 1..Len(txns) :
    txns[i].accountId \in AccountsOf(c) /\ txns[i].status = "COMPLETED"

\* checkAnswer.  A blank answer is trimmed to the empty string, which every
\* masked number ends with and every address includes.
CheckAnswer(q, answer, c) ==
  CASE q = "last_txn_amount" -> HasTransaction(c) /\ answer = "right"
    [] q = "card_last_four" -> HasCards(c) /\ answer \in {"right", " "}
    [] q = "address" -> answer \in {"right", " "}
    [] OTHER -> answer = "right"

\* The filter of startVerification and of answerQuestion.
Available(c, asked) ==
  {q \in QuestionIds : /\ q # "phone_number"
                       /\ q = "card_last_four" => HasCards(c)
                       /\ q \notin asked}

\* shuffleWithinWeightTiers(questions)[0]: any question of the top tier.
FirstOfShuffle(questions) ==
  {q \in questions : \A o \in questions : Weight(o) <= Weight(q)}

Range(seq) == {seq[i] : i \in 1..Len(seq)}
Last(seq) == seq[Len(seq)]

\* verificationSession.findUnique: the row as read, or null.
SessionRow(s) == IF s \in SessionIds THEN sessions[s] ELSE NoSession

FreeSessions == {s \in SessionIds : ~sessions[s].exists}

\* The two callers of the service: the call-center agent's routes and the
\* bot's.
Flows == {"agent", "bot"}

\* signBotSessionToken
BotSessionToken(c) == [type |-> "bot_session", sub |-> c, botId |-> Employee]

AuditAction(flow, name) == IF flow = "bot" THEN "BOT_" \o name ELSE name

\* POST /verify/start up to the create: the body check of the route, the
\* customer looked up by phone, the questions filtered and shuffled.
StartVerificationStart(p, flow, ph) ==
  LET r == [op |-> "startVerification", flow |-> flow, phoneNumber |-> ph,
            via |-> Direct]
      c == PhoneCustomer(ph)
  IN /\ Start(p, r)
     /\ FreeSessions # {}
     /\ IF c = NoCustomer
          THEN Throw(p, "NOT_FOUND")
          ELSE \E q \in FirstOfShuffle(Available(c, {})) :
                 Await(p, "verify_create", [customerId |-> c, first |-> q])
     /\ UNCHANGED <<storeVars, clockVars, sweepVars, limitVars, staffVars, authVars, ledgerVars, routeVars>>

\* startVerification: the session is created with its first question.
StartVerificationCreate(p) ==
  /\ Resume(p, "verify_create")
  /\ \E s \in FreeSessions :
       /\ sessions' = [sessions EXCEPT ![s] =
                         [exists |-> TRUE, id |-> s,
                          customerId |-> loc[p].customerId,
                          status |-> "IN_PROGRESS",
                          confidence |-> Exactly(0),
                          correctAnswers |-> 0,
                          questionsAsked |-> <<loc[p].first>>,
                          expired |-> FALSE]]
       /\ Await(p, "verify_audit",
                [rows |-> <<AuditRow(AuditAction(req[p].flow,
                                                 "VERIFICATION_STARTED"),
                                     "VerificationSession", s,
                                     [phoneNumber |-> req[p].phoneNumber])>>,
                 reply |-> [sessionId |-> s, status |-> "IN_PROGRESS",
                            question |-> loc[p].first]])
  /\ UNCHANGED <<storeVars, clockVars, sweepVars, limitVars, staffVars, tokens, issued, ledgerVars, routeVars>>

\* The createAuditLog calls of a verification route, then c.json(...).
VerifyAudit(p) ==
  /\ Resume(p, "verify_audit")
  /\ audit' = audit \o loc[p].rows
  /\ Respond(p, Json(StatusOf("OK"), loc[p].reply))
  /\ UNCHANGED <<storeVars, clockVars, sweepVars, limitVars, staffVars, authVars, ledgerVars, idem>>

\* The new confidence without the floor at 0.
NewConfidenceNoFloor(old, q, correct) ==
  {Exactly(IF correct THEN old.units + Weight(q)
           ELSE old.units - (Weight(q) \div 2))}

\* answerQuestion, lines 132-141: the new confidence.  A sum that is the
\* threshold in decimal may come out just under it.
NewConfidence(old, q, correct) ==
  LET raw == IF correct THEN old.units + Weight(q)
             ELSE old.units - (Weight(q) \div 2)
      n == IF raw < 0 THEN 0 ELSE raw
  IN IF n = Threshold THEN {Exactly(n), JustUnder(n)} ELSE {Exactly(n)}

\* answerQuestion from the answer checked to the update chosen: VERIFIED at
\* the threshold, FAILED when no question is left, else the next question.
\* The outcomes are the updates the call may go on to write.
AnswerOutcomes(session, q, answer) ==
  LET c == session.customerId
      asked == session.questionsAsked
      correct == CheckAnswer(q, answer, c)
      count == session.correctAnswers + (IF correct THEN 1 ELSE 0)
      left == Available(c, Range(asked))
  IN UNION {
       IF ReachesThreshold(x)
         THEN {[write |-> "VERIFIED", confidence |-> x,
                correctAnswers |-> count, questionsAsked |-> asked,
                correct |-> correct, customerId |-> c]}
         ELSE IF left = {}
           THEN {[write |-> "FAILED", confidence |-> x,
                  correctAnswers |-> count, questionsAsked |-> asked,
                  correct |-> correct, customerId |-> c]}
           ELSE {[write |-> "IN_PROGRESS", confidence |-> x,
                  correctAnswers |-> count,
                  questionsAsked |-> Append(asked, next),
                  correct |-> correct, customerId |-> c]
                 : next \in FirstOfShuffle(left)}
       : x \in NewConfidence(session.confidence, q, correct)}

\* POST /verify/answer up to the first write: the body check of the route,
\* then answerQuestion, lines 88-130: the session read with its customer,
\* the status, expiry and question-id checks.
AnswerStart(p, flow, s, q, answer) ==
  LET r == [op |-> "answerQuestion", flow |-> flow, sessionId |-> s,
            questionId |-> q, answer |-> answer, via |-> Direct]
      session == SessionRow(s)
  IN /\ Start(p, r)
     /\ IF answer = "" \/ q = NoQuestion \/ s = NoSessionId
          THEN Throw(p, "VALIDATION_ERROR")
          ELSE IF ~session.exists THEN Throw(p, "NOT_FOUND")
          ELSE IF session.status # "IN_PROGRESS" THEN Throw(p, "NOT_FOUND")
          ELSE IF session.expired THEN Await(p, "answer_expire", NoLoc)
          ELSE IF Last(session.questionsAsked) # q
            THEN Throw(p, "VALIDATION_ERROR")
          ELSE \E out \in AnswerOutcomes(session, q, answer) :
                 Await(p, "answer_write", out)
     /\ UNCHANGED <<storeVars, clockVars, sweepVars, limitVars, staffVars, authVars, ledgerVars, routeVars>>

\* The expired session answered SESSION_EXPIRED without the write.
AnswerExpireQuiet(p) ==
  /\ Resume(p, "answer_expire")
  /\ Throw(p, "SESSION_EXPIRED")
  /\ UNCHANGED <<storeVars, clockVars, sweepVars, limitVars, staffVars, authVars, ledgerVars, routeVars>>

\* answerQuestion, lines 113-119: the expired session is written EXPIRED.
AnswerExpire(p) ==
  /\ Resume(p, "answer_expire")
  /\ sessions' = [sessions EXCEPT ![req[p].sessionId].status = "EXPIRED"]
  /\ Throw(p, "SESSION_EXPIRED")
  /\ UNCHANGED <<storeVars, clockVars, sweepVars, limitVars, staffVars, tokens, issued, ledgerVars, routeVars>>

\* What answerQuestion returns, and what the route makes of it: the agent
\* route sends it as it is, the bot route sends a bot session token in
\* place of the access token.
AnswerResult(flow, s, out) ==
  LET base == [sessionId |-> s, status |-> out.write,
               correct |-> out.correct, confidence |-> out.confidence]
  IN IF out.write = "VERIFIED"
       THEN IF flow = "bot"
              THEN base @@ [botSessionToken |-> BotSessionToken(out.customerId),
                            customer |-> out.customerId]
              ELSE base @@ [accessToken |-> AccessToken("customer",
                                                        out.customerId),
                            customer |-> out.customerId]
       ELSE IF out.write = "IN_PROGRESS"
         THEN base @@ [nextQuestion |-> Last(out.questionsAsked)]
         ELSE base

AnswerAuditRows(flow, s, q, out) ==
  <<AuditRow(AuditAction(flow, "VERIFICATION_ANSWERED"),
             "VerificationSession", s, [questionId |-> q])>>
  \o (IF out.write = "VERIFIED"
        THEN <<AuditRow(AuditAction(flow, "VERIFICATION_COMPLETED"),
                        "VerificationSession", s,
                        [confidence |-> out.confidence])>>
        ELSE <<>>)

\* answerQuestion, lines 143-210: the update by id.  VERIFIED and FAILED
\* set status, confidence and correctAnswers; the update for the next
\* question sets confidence, correctAnswers and questionsAsked.
AnswerWrite(p) ==
  /\ Resume(p, "answer_write")
  /\ LET r == req[p]
         out == loc[p]
         old == sessions[r.sessionId]
         new == IF out.write = "IN_PROGRESS"
                  THEN [old EXCEPT !.confidence = out.confidence,
                                   !.correctAnswers = out.correctAnswers,
                                   !.questionsAsked = out.questionsAsked]
                  ELSE [old EXCEPT !.status = out.write,
                                   !.confidence = out.confidence,
                                   !.correctAnswers = out.correctAnswers]
     IN /\ sessions' = [sessions EXCEPT ![r.sessionId] = new]
        /\ Await(p, "verify_audit",
                 [rows |-> AnswerAuditRows(r.flow, r.sessionId,
                                           r.questionId, out),
                  reply |-> AnswerResult(r.flow, r.sessionId, out)])
  /\ UNCHANGED <<storeVars, clockVars, sweepVars, limitVars, staffVars, tokens, issued, ledgerVars, routeVars>>

\* The clock passes the expiresAt of a session (ten minutes).
SessionExpires(s) ==
  /\ sessions[s].exists
  /\ ~sessions[s].expired
  /\ sessions' = [sessions EXCEPT ![s].expired = TRUE]
  /\ UNCHANGED <<storeVars, clockVars, sweepVars, limitVars, staffVars, tokens, issued, ledgerVars, routeVars,
                 procVars>>

\* ------------------------------------------------------------- the clock

\* The expiry month of card k passes.
ExpiryPasses(k) ==
  /\ cards[k].exists
  /\ k \notin pastExpiry
  /\ pastExpiry' = pastExpiry \cup {k}
  /\ UNCHANGED <<storeVars, today, sweepVars, limitVars, staffVars, ledgerVars, authVars, routeVars,
                 procVars>>

\* The clock passes midnight UTC: todayStart of lines 68-69 moves on.
DayPasses ==
  /\ today < MaxDays
  /\ today' = today + 1
  /\ UNCHANGED <<storeVars, pastExpiry, sweepVars, limitVars, staffVars, ledgerVars, authVars,
                 routeVars, procVars>>

\* ------------------------------------------------ idempotent admin routes

RouteCards == "POST /api/v1/admin/cards"
RouteWithdrawals == "POST /api/v1/admin/withdrawals"
RouteAccountStatus == "PATCH /api/v1/admin/accounts/:id"
RouteDeleteCustomer == "DELETE /api/v1/admin/customers/:id"

\* A request to a route: the parsed body's fields, and how it was sent (the
\* route, the Idempotency-Key header, and the whitespace of the body text,
\* which JSON.parse drops and the hash keeps).
CardPost(a, type, limit, key, ws) ==
  [op |-> "createCard", accountId |-> a, type |-> type, dailyLimit |-> limit,
   via |-> [route |-> RouteCards, key |-> key, ws |-> ws, seq |-> 0]]
WithdrawalPost(a, amount, channel, key, ws) ==
  [op |-> "withdrawal", accountId |-> a, amount |-> amount,
   channel |-> channel,
   via |-> [route |-> RouteWithdrawals, key |-> key, ws |-> ws, seq |-> 0]]

\* idempotencyMiddleware, lines 14-15: the body text and its hash.
BodyText(r) ==
  [json |-> [f \in DOMAIN r \ {"op", "via"} |-> r[f]], ws |-> r.via.ws]
BodyHash(r) == [form |-> "sha256", of |-> BodyText(r)]

\* PATCH /admin/accounts/:id and DELETE /admin/customers/:id; they take no
\* Idempotency-Key.
AccountPatch(a, status) ==
  [op |-> "updateAccount", accountId |-> a, status |-> status,
   via |-> [route |-> RouteAccountStatus, key |-> NoKey, ws |-> 0, seq |-> 0]]
CustomerDelete(c) ==
  [op |-> "deleteCustomer", customerId |-> c,
   via |-> [route |-> RouteDeleteCustomer, key |-> NoKey, ws |-> 0,
            seq |-> 0]]

\* validate(createCardSchema, raw) and validate(createWithdrawalSchema, raw);
\* the status a PATCH of an account must carry; DELETE has no body.
ValidBody(r) ==
  CASE r.op = "createCard" ->
         r.type \in CardTypes /\ (r.dailyLimit.given => r.dailyLimit.value > 0)
    [] r.op = "withdrawal" -> r.amount > 0 /\ r.channel \in Channels
    [] r.op = "updateAccount" -> r.status # ""
    [] r.op = "deleteCustomer" -> TRUE

\* A comparison that takes every record found for another request's.
MismatchAlways(existing, r) == existing.exists

\* A comparison of the routes only.
MismatchRouteOnly(existing, r) == existing.route # r.via.route

\* idempotencyMiddleware, line 26: the record found is for another request.
Mismatch(existing, r) ==
  existing.route # r.via.route \/ existing.body # BodyHash(r)

\* The route handler up to its service's first database call.
RouteCall(p, r) ==
  CASE r.op = "createCard" -> CreateCardCall(p, r)
    [] r.op = "withdrawal" -> WithdrawalCall(p, r)
    [] r.op = "updateAccount" -> UpdateAccountCall(p, r)
    [] r.op = "deleteCustomer" -> DeleteCustomerCall(p, r)

\* idempotencyMiddleware, lines 7-45, and the handler's validation: a
\* request arrives at a route.
RouteStart(p, r) ==
  /\ Start(p, r)
  /\ IF r.via.key = NoKey
       THEN IF ValidBody(r) THEN RouteCall(p, r)
            ELSE Throw(p, "VALIDATION_ERROR")
       ELSE LET existing == idem[r.via.key]
            IN IF existing.exists
                 THEN IF Mismatch(existing, r)
                        THEN Respond(p, Reply("CONFLICT", NoBody))
                        ELSE Respond(p, Json(existing.status,
                                             existing.response))
                 ELSE IF ValidBody(r) THEN Await(p, "route_handler", NoLoc)
                      ELSE Throw(p, "VALIDATION_ERROR")
  /\ UNCHANGED <<storeVars, clockVars, sweepVars, limitVars, staffVars, authVars, ledgerVars, routeVars>>

\* EmployeeRole, after the last migration.
Roles == {"TELLER", "ADMIN", "CALL_CENTER_AGENT", "BOT"}

\* An allow-list that lets every role create a withdrawal.
AllowedRolesOpen(route) == Roles

\* The arguments of requireRole on each route.
AllowedRoles(route) ==
  CASE route = RouteCards -> {"TELLER", "ADMIN"}
    [] route = RouteWithdrawals -> {"TELLER"}
    [] route = RouteAccountStatus -> {"MANAGER", "ADMIN"}
    [] route = RouteDeleteCustomer -> {"ADMIN"}

\* adminAuthMiddleware has set the employee and the role of the token;
\* requireRole, then the idempotency middleware and the handler.
AdminStart(p, e, role, r) ==
  LET q == [r EXCEPT !.via = [route |-> r.via.route, key |-> r.via.key,
                              ws |-> r.via.ws, seq |-> 0,
                              employeeId |-> e, role |-> role]]
  IN IF role \in AllowedRoles(q.via.route)
       THEN RouteStart(p, q)
       ELSE /\ Start(p, q)
            /\ Throw(p, "FORBIDDEN")
            /\ UNCHANGED <<storeVars, clockVars, sweepVars, limitVars, staffVars, authVars, ledgerVars,
                           routeVars>>

\* After a missed lookup: the handler calls its service.
RouteHandler(p) ==
  /\ Resume(p, "route_handler")
  /\ RouteCall(p, req[p])
  /\ UNCHANGED <<storeVars, clockVars, sweepVars, limitVars, staffVars, authVars, ledgerVars, routeVars>>

\* The createAuditLog call of the handler.
RouteAuditTag(r) ==
  CASE r.op = "createCard" ->
         AuditRow("CARD_ISSUED", "Card", 0,
                  [accountId |-> r.accountId, type |-> r.type])
    [] r.op = "withdrawal" ->
         AuditRow("WITHDRAWAL_CREATED", "Withdrawal", 0,
                  [accountId |-> r.accountId, amount |-> r.amount,
                   channel |-> r.channel])
    [] r.op = "updateAccount" ->
         AuditRow("ACCOUNT_STATUS_CHANGED", "Account", r.accountId,
                  [status |-> r.status])
    [] r.op = "deleteCustomer" ->
         AuditRow("CUSTOMER_DELETED", "Customer", r.customerId, <<>>)

\* The row under the model's one employee, whoever made the request.
RouteAuditRowFixed(r, result) ==
  [RouteAuditTag(r) EXCEPT
     !.entityId = IF r.op \in {"createCard", "withdrawal"} THEN result.id
                  ELSE @]

\* employeeId: c.get('employeeId'); entityId: result.id of what a POST
\* created.
RouteAuditRow(r, result) ==
  [RouteAuditTag(r) EXCEPT
     !.employeeId = IF "employeeId" \in DOMAIN r.via THEN r.via.employeeId
                    ELSE @,
     !.entityId = IF r.op \in {"createCard", "withdrawal"} THEN result.id
                  ELSE @]

\* The handler after its service returned: the audit row; without a stashed
\* key saveIdempotencyRecord returns at once and the response is sent.
RouteAudit(p) ==
  /\ Resume(p, "route_audit")
  /\ audit' = Append(audit, RouteAuditRow(req[p], loc[p].result))
  /\ IF req[p].via.key = NoKey
       THEN Respond(p, Json(IF req[p].op \in {"createCard", "withdrawal"}
                              THEN StatusOf("CREATED") ELSE StatusOf("OK"),
                            loc[p].result))
       ELSE Await(p, "route_save", loc[p])
  /\ UNCHANGED <<storeVars, clockVars, sweepVars, limitVars, staffVars, authVars, ledgerVars, idem>>

\* saveIdempotencyRecord, lines 92-112, then the response.  The key is the
\* table's primary key: a second insert for it fails.
RouteSave(p) ==
  /\ Resume(p, "route_save")
  /\ LET r == req[p]
     IN IF idem[r.via.key].exists
          THEN /\ Throw(p, "INTERNAL_ERROR")
               /\ UNCHANGED idem
          ELSE /\ idem' = [idem EXCEPT ![r.via.key] =
                             [exists |-> TRUE, route |-> r.via.route,
                              body |-> BodyHash(r),
                              response |-> loc[p].result,
                              status |-> StatusOf("CREATED"),
                              stale |-> FALSE]]
               /\ Respond(p, Json(StatusOf("CREATED"), loc[p].result))
  /\ UNCHANGED <<storeVars, clockVars, sweepVars, limitVars, staffVars, authVars, ledgerVars, audit>>

\* The clock: the record of key k becomes older than 24 hours.
RecordAges(k) ==
  /\ idem[k].exists
  /\ ~idem[k].stale
  /\ idem' = [idem EXCEPT ![k].stale = TRUE]
  /\ UNCHANGED <<storeVars, clockVars, sweepVars, limitVars, staffVars, authVars, ledgerVars, audit, procVars>>

\* runCleanup, lines 50-62: the hourly sweep deletes the records older than
\* 24 hours.
RunCleanup ==
  /\ idem' = [k \in Keys |->
                IF idem[k].exists /\ idem[k].stale THEN NoRecord ELSE idem[k]]
  /\ UNCHANGED <<storeVars, clockVars, sweepVars, limitVars, staffVars, authVars, ledgerVars, audit, procVars>>

\* ------------------------------------------- lib/idempotency: the sweep

\* The three tables the hourly pass deletes from.
Deletions == {"idempotencyRecord", "refreshToken", "employeeRefreshToken"}

\* deleteMany({where: {createdAt: {lt: cutoff}}}) on the records.
RecordsKept ==
  [k \in Keys |->
     IF idem[k].exists /\ idem[k].stale THEN NoRecord ELSE idem[k]]

\* deleteMany({where: {expiresAt: {lt: now}}}) on the table of the kind.
TokensKept(kind) == {row \in tokens : ~(row.kind = kind /\ row.expired)}

\* The database begins, and ceases, to reject deleteMany on a table.
FaultBegins(d) ==
  /\ d \notin faults
  /\ faults' = faults \cup {d}
  /\ UNCHANGED <<storeVars, clockVars, sweep, limitVars, staffVars, authVars,
                 ledgerVars, routeVars, procVars>>

FaultEnds(d) ==
  /\ d \in faults
  /\ faults' = faults \ {d}
  /\ UNCHANGED <<storeVars, clockVars, sweep, limitVars, staffVars, authVars,
                 ledgerVars, routeVars, procVars>>

\* runCleanup, lines 50-61, called by the interval timer: the first try
\* block.  A rejected deleteMany is caught and logged.
CleanupRecords ==
  /\ sweep = "idle"
  /\ idem' = IF "idempotencyRecord" \in faults THEN idem ELSE RecordsKept
  /\ sweep' = "refreshToken"
  /\ UNCHANGED <<storeVars, clockVars, faults, limitVars, staffVars, authVars,
                 ledgerVars, audit, procVars>>

\* runCleanup, lines 63-67 and 75-77: the second try block up to its second
\* await.  A rejected deleteMany leaves the block for its catch, and the
\* pass is over.
CleanupTokens ==
  /\ sweep = "refreshToken"
  /\ IF "refreshToken" \in faults
       THEN /\ UNCHANGED tokens
            /\ sweep' = "idle"
       ELSE /\ tokens' = TokensKept("customer")
            /\ sweep' = "employeeRefreshToken"
  /\ UNCHANGED <<storeVars, clockVars, faults, limitVars, staffVars, issued,
                 sessions, ledgerVars, routeVars, procVars>>

\* runCleanup, lines 68-77: the rest of the second try block.
CleanupEmployeeTokens ==
  /\ sweep = "employeeRefreshToken"
  /\ tokens' = IF "employeeRefreshToken" \in faults THEN tokens
               ELSE TokensKept("employee")
  /\ sweep' = "idle"
  /\ UNCHANGED <<storeVars, clockVars, faults, limitVars, staffVars, issued,
                 sessions, ledgerVars, routeVars, procVars>>

\* --------------------------------------------------------- customer routes

\* A customer is answered whatever account is asked for, if it exists.
AssertAccountExists(a, customerId) ==
  IF ~AccountRow(a).exists THEN "NOT_FOUND" ELSE "OK"

\* authorization.ts, assertAccountOwnership.
AssertAccountOwnership(a, customerId) ==
  LET account == AccountRow(a)
  IN IF ~account.exists THEN "NOT_FOUND"
     ELSE IF account.customerId # customerId THEN "FORBIDDEN"
     ELSE "OK"

\* The routes /accounts/:id, /accounts/:id/balance and
\* /accounts/:accountId/transactions check the account of the path first.
AccountScoped == {"account", "balance", "transactions"}
\* The routes /transactions/:id, /payments/:id, /cards/:id, /deposits/:id,
\* /withdrawals/:id and /transfers/:id read the row first.
RowScoped == {"transaction", "payment", "card", "deposit", "withdrawal",
              "transfer"}

Table(kind) ==
  CASE kind = "transaction" -> txns
    [] kind = "payment" -> payments
    [] kind = "deposit" -> deposits
    [] kind = "withdrawal" -> withdrawals
    [] kind = "transfer" -> transfers

\* getTransaction, getPayment, getCard, getDeposit, getWithdrawal,
\* getTransfer: findUnique by id.
FindRow(kind, id) ==
  IF kind = "card"
    THEN IF CardRow(id).exists
           THEN [exists |-> TRUE, row |-> CardPublic(CardRow(id))]
           ELSE [exists |-> FALSE]
    ELSE IF id \in 1..Len(Table(kind))
           THEN [exists |-> TRUE, row |-> Table(kind)[id]]
           ELSE [exists |-> FALSE]

\* getAccount, getBalance, listTransactions.
AccountData(kind, a) ==
  CASE kind = "account" -> AccountRow(a)
    [] kind = "balance" -> [accountId |-> a, balance |-> balance[a]]
    [] kind = "transactions" ->
         [data |-> SelectSeq(txns, LAMBDA t : t.accountId = a)]

\* authMiddleware: the request carries the access token of customer who.
AsCustomer(who, route, key) ==
  [route |-> route, key |-> key, ws |-> 0, seq |-> 0, customerId |-> who]

\* A GET of an id-scoped resource: the first database call of its handler.
CustomerGetStart(p, who, kind, id) ==
  LET r == [op |-> "get", kind |-> kind, id |-> id,
            via |-> AsCustomer(who, "none", NoKey)]
  IN /\ Start(p, r)
     /\ IF kind \in AccountScoped
          THEN LET code == AssertAccountOwnership(id, who)
               IN IF code = "OK" THEN Await(p, "customer_read", NoLoc)
                  ELSE Throw(p, code)
          ELSE LET found == FindRow(kind, id)
               IN IF found.exists
                    THEN Await(p, "customer_assert", [result |-> found.row])
                    ELSE Throw(p, "NOT_FOUND")
     /\ UNCHANGED <<storeVars, clockVars, sweepVars, limitVars, staffVars, authVars, ledgerVars, routeVars>>

\* The service call after the ownership check of the path's account.
CustomerRead(p) ==
  /\ Resume(p, "customer_read")
  /\ Respond(p, Json(StatusOf("OK"), AccountData(req[p].kind, req[p].id)))
  /\ UNCHANGED <<storeVars, clockVars, sweepVars, limitVars, staffVars, authVars, ledgerVars, routeVars>>

\* The ownership check after the row was read; for a transfer the check of
\* the source account and, if that one throws, of the destination account.
CustomerAssert(p) ==
  /\ Resume(p, "customer_assert")
  /\ LET r == req[p]
         row == loc[p].result
         code == IF r.kind = "transfer"
                   THEN IF AssertAccountOwnership(row.fromAccountId,
                                                  r.via.customerId) = "OK"
                          THEN "OK"
                          ELSE AssertAccountOwnership(row.toAccountId,
                                                      r.via.customerId)
                   ELSE AssertAccountOwnership(row.accountId, r.via.customerId)
     IN IF code = "OK" THEN Respond(p, Json(StatusOf("OK"), row))
        ELSE Throw(p, code)
  /\ UNCHANGED <<storeVars, clockVars, sweepVars, limitVars, staffVars, authVars, ledgerVars, routeVars>>

TransferPost(who, f, t, amount, key) ==
  [op |-> "transfer", fromAccountId |-> f, toAccountId |-> t,
   amount |-> amount, via |-> AsCustomer(who, RouteTransfers, key)]
PaymentPost(who, a, amount, key) ==
  [op |-> "payment", accountId |-> a, amount |-> amount,
   via |-> AsCustomer(who, RoutePayments, key)]

\* POST /transfers and POST /payments: idempotencyMiddleware, then the
\* validation of the body.
CustomerPostStart(p, r) ==
  /\ Start(p, r)
  /\ LET existing == IF r.via.key = NoKey THEN NoRecord ELSE idem[r.via.key]
     IN IF existing.exists
          THEN IF Mismatch(existing, r)
                 THEN Respond(p, Reply("CONFLICT", NoBody))
                 ELSE Respond(p, Json(existing.status, existing.response))
          ELSE IF r.amount > 0 THEN Await(p, "customer_own", NoLoc)
               ELSE Throw(p, "VALIDATION_ERROR")
  /\ UNCHANGED <<storeVars, clockVars, sweepVars, limitVars, staffVars, authVars, ledgerVars, routeVars>>

\* The ownership check of the account the money comes from, then the call
\* of the service.
CustomerOwn(p) ==
  /\ Resume(p, "customer_own")
  /\ LET r == req[p]
         code == AssertAccountOwnership(
                   IF r.op = "transfer" THEN r.fromAccountId ELSE r.accountId,
                   r.via.customerId)
     IN IF code # "OK" THEN Throw(p, code)
        ELSE IF r.op = "transfer" THEN TransferCall(p, r, "from")
        ELSE PaymentCall(p, r)
  /\ UNCHANGED <<storeVars, clockVars, sweepVars, limitVars, staffVars, authVars, ledgerVars, routeVars>>

\* ---------------------------------------------------------- specifications

\* The concurrent ledger: the money-moving services, called from two request
\* slots whose database calls interleave.
LedgerAccounts == {"a1", "a2"}
LedgerAmounts == {1, MaxAmount}
LedgerChannels == {"ATM", "TELLER"}

Init == Boot(MaxRequests)

Next ==
  \/ \E p \in Procs, f \in LedgerAccounts, t \in LedgerAccounts, m \in LedgerAmounts,
        first \in {"from", "to"} : TransferStart(p, f, t, m, first)
  \/ \E p \in Procs : TransferRead(p)
  \/ \E p \in Procs : TransferTx(p)
  \/ \E p \in Procs, a \in LedgerAccounts, m \in LedgerAmounts : PaymentStart(p, a, m)
  \/ \E p \in Procs : PaymentTx(p)
  \/ \E t \in timers : PaymentSettle(t)
  \/ \E p \in Procs, a \in LedgerAccounts, m \in LedgerAmounts : DepositStart(p, a, m)
  \/ \E p \in Procs : DepositTx(p)
  \/ \E p \in Procs, a \in LedgerAccounts, m \in LedgerAmounts, ch \in LedgerChannels :
        WithdrawalStart(p, a, m, ch)
  \/ \E p \in Procs : WithdrawalExpire(p)
  \/ \E p \in Procs : WithdrawalTx(p)
  \/ \E p \in Procs : WithdrawalCommit(p)
  \/ ExpiryPasses("k1")

Spec == Init /\ [][Next]_vars

\* The serial ledger: the same services and the account status update,
\* called one at a time, with every kind of argument.
SeqAmounts == {0, 1, MaxAmount}

SeqInit == Boot(SeqRequests)

SeqNext ==
  \/ \E f \in AccountIds, t \in AccountIds, m \in SeqAmounts :
        TransferStart("p1", f, t, m, "from")
  \/ TransferRead("p1")
  \/ TransferTx("p1")
  \/ \E a \in AccountIds, m \in SeqAmounts : PaymentStart("p1", a, m)
  \/ PaymentTx("p1")
  \/ \E t \in timers : PaymentSettle(t)
  \/ \E a \in AccountIds, m \in SeqAmounts : DepositStart("p1", a, m)
  \/ DepositTx("p1")
  \/ \E a \in AccountIds, m \in SeqAmounts, ch \in Channels :
        WithdrawalStart("p1", a, m, ch)
  \/ WithdrawalExpire("p1")
  \/ WithdrawalTx("p1")
  \/ WithdrawalCommit("p1")
  \/ \E a \in AccountIds : GetBalance("p1", a)
  \/ \E a \in AccountIds, st \in AccountStatuses :
        UpdateAccountStart("p1", a, st)
  \/ UpdateAccountTx("p1")
  \/ ExpiryPasses("k1")

SeqSpec == SeqInit /\ [][SeqNext]_vars

\* The status model: account and customer status changes, called from two
\* request slots whose database calls interleave.
StatusInit == Boot(StatusRequests)

StatusNext ==
  \/ \E p \in Procs, a \in AccountIds, st \in AccountStatuses :
        UpdateAccountStart(p, a, st)
  \/ \E p \in Procs : UpdateAccountTx(p)
  \/ \E p \in Procs, c \in CustomerIds, st \in CustomerStatuses :
        UpdateCustomerStart(p, c, st)
  \/ \E p \in Procs : UpdateCustomerWrite(p)
  \/ \E p \in Procs, c \in CustomerIds : DeleteCustomerStart(p, c)
  \/ \E p \in Procs : DeleteCustomerTx(p)

StatusSpec == StatusInit /\ [][StatusNext]_vars

\* The card model: everything that touches a card's status, called one at
\* a time.
CardTargets == CardStatuses \cup {"none"}
CardLimits == {Absent, Given(0), Given(CardDailyLimit)}

CardInit == Boot(CardRequests)

CardNext ==
  \/ \E a \in {"a1", NoAccount}, ty \in CardTypes,
        l \in {Absent, Given(CardDailyLimit)} :
        CreateCardStart("p1", a, ty, l)
  \/ CreateCardCreate("p1")
  \/ \E k \in CardIds \cup {NoCardId}, st \in CardTargets, l \in CardLimits :
        UpdateCardStart("p1", k, st, l)
  \/ UpdateCardExpire("p1")
  \/ UpdateCardWrite("p1")
  \/ \E k \in CardIds \cup {NoCardId} : DeleteCardStart("p1", k)
  \/ DeleteCardWrite("p1")
  \/ \E c \in Customers, k \in CardIds \cup {NoCardId} :
        BlockCardStart("p1", c, k)
  \/ BlockCardWrite("p1")
  \/ BlockCardAudit("p1")
  \/ WithdrawalStart("p1", "a1", 1, "ATM")
  \/ WithdrawalExpire("p1")
  \/ WithdrawalTx("p1")
  \/ WithdrawalCommit("p1")
  \/ \E st \in AccountStatuses : UpdateAccountStart("p1", "a1", st)
  \/ UpdateAccountTx("p1")
  \/ DeleteCustomerStart("p1", "c1")
  \/ DeleteCustomerTx("p1")
  \/ \E k \in CardIds : ExpiryPasses(k)

CardSpec == CardInit /\ [][CardNext]_vars

\* The idempotent routes: card issuance and withdrawal through the admin
\* routes, with and without an Idempotency-Key, and the cleanup sweep.
IdemKeys == {"K1", NoKey}
IdemPosts ==
  {CardPost("a1", "DEBIT", l, key, ws) :
     l \in {Absent, Given(CardDailyLimit)}, key \in IdemKeys, ws \in {0, 1}}
  \cup {WithdrawalPost("a2", 1, "TELLER", key, ws) :
          key \in IdemKeys, ws \in {0, 1}}

IdemInit == Boot(IdemRequests)

IdemNext ==
  \/ \E p \in Procs, r \in IdemPosts : RouteStart(p, r)
  \/ \E p \in Procs : RouteHandler(p)
  \/ \E p \in Procs : CreateCardCreate(p)
  \/ \E p \in Procs : WithdrawalTx(p)
  \/ \E p \in Procs : RouteAudit(p)
  \/ \E p \in Procs : RouteSave(p)
  \/ \E k \in Keys : RecordAges(k)
  \/ RunCleanup

IdemSpec == IdemInit /\ [][IdemNext]_vars

\* ATM and teller withdrawals on one account, one call at a time, over the
\* days of the clock; the account holds twice the card's daily limit.
AtmBalance == 2 * CardDailyLimit
AtmAmounts == 1..(CardDailyLimit + 1)

AtmInit == BootWith(AtmRequests, AtmBalance, <<>>)

AtmNext ==
  \/ \E amount \in AtmAmounts, ch \in LedgerChannels :
       WithdrawalStart("p1", "a1", amount, ch)
  \/ WithdrawalTx("p1")
  \/ WithdrawalCommit("p1")
  \/ WithdrawalExpire("p1")
  \/ ExpiryPasses("k1")
  \/ DayPasses

AtmSpec == AtmInit /\ [][AtmNext]_vars

\* ATM withdrawals on one account by two callers at once, within one day.
AtmRaceInit == BootWith(AtmRaceRequests, AtmBalance, <<>>)

AtmRaceNext ==
  \/ \E p \in Procs, amount \in AtmAmounts, ch \in LedgerChannels :
       WithdrawalStart(p, "a1", amount, ch)
  \/ \E p \in Procs : WithdrawalTx(p)
  \/ \E p \in Procs : WithdrawalCommit(p)

AtmRaceSpec == AtmRaceInit /\ [][AtmRaceNext]_vars

\* Logins, refreshes and logouts of customers and employees, two at once,
\* presenting any value issued so far or one never issued (0).
TokenInit == Boot(TokenRequests)

TokenNext ==
  \/ \E p \in Procs, kind \in Kinds, valid \in BOOLEAN :
       \E who \in {"c1", Employee, NoEmployee} :
         LoginStart(p, kind, who, valid)
  \/ \E p \in Procs : LoginCreate(p)
  \/ \E p \in Procs, kind \in Kinds, t \in 0..issued :
       RefreshStart(p, kind, t)
  \/ \E p \in Procs : RefreshExpire(p)
  \/ \E p \in Procs : RefreshRotate(p)
  \/ \E p \in Procs, kind \in Kinds, t \in 0..issued : Logout(p, kind, t)
  \/ \E row \in tokens : TokenExpires(row)

TokenSpec == TokenInit /\ [][TokenNext]_vars

\* The ledger as seeded: empty, or with a COMPLETED transaction on an
\* account of each customer.
SeedTxn(a) ==
  [accountId |-> a, type |-> "CREDIT", amount |-> 1, balanceAfter |-> 1,
   status |-> "COMPLETED"]
SeedLedgers == {<<>>, <<SeedTxn("a1"), SeedTxn("a2")>>}

\* The question ids a caller submits for session s: the one asked last, and
\* with it the one asked first and one that is never asked.
Asked(s) ==
  IF s \in SessionIds /\ sessions[s].exists
    THEN {Last(sessions[s].questionsAsked)} ELSE {}
Submitted(s) == Asked(s) \cup {"last_txn_amount", "phone_number"}

\* Verification sessions run by an agent, one call at a time, for a customer
\* with a card and one without, with and without transactions.
VerifyInit ==
  \E ledger \in SeedLedgers : BootWith(VerifyRequests, InitBalance, ledger)

VerifyNext ==
  \/ \E ph \in Phones : StartVerificationStart("p1", "agent", ph)
  \/ StartVerificationCreate("p1")
  \/ VerifyAudit("p1")
  \/ \E answer \in Answers, q \in Submitted("s1") :
       AnswerStart("p1", "agent", "s1", q, answer)
  \/ AnswerExpire("p1")
  \/ AnswerWrite("p1")
  \/ SessionExpires("s1")

VerifySpec == VerifyInit /\ [][VerifyNext]_vars

\* One verification session of a customer with a card, answered through the
\* bot's routes by two callers at once.
VerifyRaceInit ==
  BootWith(VerifyRaceRequests, InitBalance, <<SeedTxn("a1"), SeedTxn("a2")>>)

VerifyRaceNext ==
  \/ \E p \in Procs : StartVerificationStart(p, "bot", "ph1")
  \/ \E p \in Procs : StartVerificationCreate(p)
  \/ \E p \in Procs : VerifyAudit(p)
  \/ \E p \in Procs, answer \in {"right", "wrong"}, q \in Asked("s1") :
       AnswerStart(p, "bot", "s1", q, answer)
  \/ \E p \in Procs : AnswerExpire(p)
  \/ \E p \in Procs : AnswerWrite(p)
  \/ SessionExpires("s1")

VerifyRaceSpec == VerifyRaceInit /\ [][VerifyRaceNext]_vars

\* The customer routes, one request at a time: each customer reads every
\* kind of resource and posts transfers and payments, with and without an
\* Idempotency-Key; a deposit to c1's account and a withdrawal from c2's are
\* made at the counter.
OwnerAccounts == {"a1", "a2", NoAccount}
OwnerIds(kind) ==
  IF kind \in AccountScoped THEN OwnerAccounts
  ELSE IF kind = "card" THEN {"k1", NoCardId}
  ELSE {1, 2}
OwnerKeys == {NoKey, "K1"}

OwnerInit == Boot(OwnerRequests)

OwnerNext ==
  \/ \E who \in Customers, kind \in AccountScoped \cup RowScoped :
       \E id \in OwnerIds(kind) : CustomerGetStart("p1", who, kind, id)
  \/ CustomerRead("p1")
  \/ CustomerAssert("p1")
  \/ \E who \in Customers, f \in OwnerAccounts, t \in {"a1", "a2"},
        key \in OwnerKeys :
       CustomerPostStart("p1", TransferPost(who, f, t, 1, key))
  \/ \E who \in Customers, a \in OwnerAccounts, m \in {0, 1},
        key \in OwnerKeys :
       CustomerPostStart("p1", PaymentPost(who, a, m, key))
  \/ CustomerOwn("p1")
  \/ TransferRead("p1")
  \/ TransferTx("p1")
  \/ PaymentTx("p1")
  \/ \E t \in timers : PaymentSettle(t)
  \/ RouteSave("p1")
  \/ DepositStart("p1", "a1", 1)
  \/ DepositTx("p1")
  \/ WithdrawalStart("p1", "a2", 1, "TELLER")
  \/ WithdrawalTx("p1")

OwnerSpec == OwnerInit /\ [][OwnerNext]_vars

\* The bot's scoped routes, one request at a time, for a session of either
\* customer; cards are issued and cancelled and deposits made at the counter.
BotInit == Boot(BotRequests)

BotNext ==
  \/ \E c \in Customers, kind \in BotReads, id \in {"a1", "a2", NoAccount} :
       BotGetStart("p1", c, kind, id)
  \/ BotTransactions("p1")
  \/ \E c \in Customers, k \in CardIds \cup {NoCardId} :
       BlockCardStart("p1", c, k)
  \/ BlockCardWrite("p1")
  \/ BlockCardAudit("p1")
  \/ CreateCardStart("p1", "a2", "DEBIT", Absent)
  \/ CreateCardCreate("p1")
  \/ \E k \in CardIds : DeleteCardStart("p1", k)
  \/ DeleteCardWrite("p1")
  \/ \E a \in {"a1", "a2"} : DepositStart("p1", a, 1)
  \/ DepositTx("p1")

BotSpec == BotInit /\ [][BotNext]_vars

\* Requests with every kind of Authorization header to the three surfaces.
AuthInit == Boot(AuthRequests)

AuthNext ==
  \E p \in Procs, surface \in Surfaces, header \in Headers :
    Authenticate(p, surface, header)

AuthSpec == AuthInit /\ [][AuthNext]_vars

\* The admin routes behind requireRole, one request at a time, by two
\* employees of every role.
AdminPosts ==
  {CardPost("a1", "DEBIT", Absent, key, 0) : key \in {NoKey, "K1"}}
    \cup {WithdrawalPost("a2", 1, "TELLER", key, 0) : key \in {NoKey, "K1"}}
    \cup {AccountPatch("a1", st) : st \in {"FROZEN", "CLOSED", ""}}
    \cup {CustomerDelete(c) : c \in {"c1", NoCustomer}}

AdminInit == Boot(AdminRequests)

AdminNext ==
  \/ \E e \in EmployeeIds, role \in Roles, r \in AdminPosts :
       AdminStart("p1", e, role, r)
  \/ RouteHandler("p1")
  \/ CreateCardCreate("p1")
  \/ WithdrawalTx("p1")
  \/ UpdateAccountTx("p1")
  \/ DeleteCustomerTx("p1")
  \/ RouteAudit("p1")
  \/ RouteSave("p1")

AdminSpec == AdminInit /\ [][AdminNext]_vars

\* The audited admin routes, one request at a time: cards, withdrawals,
\* account status and customer deletion by a teller and an admin, and the
\* agent's verification of a customer.
AuditPosts ==
  {CardPost("a1", "DEBIT", Absent, NoKey, 0),
   WithdrawalPost("a2", 1, "TELLER", "K1", 0),
   WithdrawalPost("a2", 0, "TELLER", NoKey, 0),
   AccountPatch("a1", "FROZEN"),
   CustomerDelete("c2")}

AuditStaff == {<<"e1", "TELLER">>, <<"e2", "ADMIN">>}

AuditInit ==
  BootWith(AuditRequests, InitBalance, <<SeedTxn("a1"), SeedTxn("a2")>>)

AuditNext ==
  \/ \E who \in AuditStaff, r \in AuditPosts :
       AdminStart("p1", who[1], who[2], r)
  \/ RouteHandler("p1")
  \/ CreateCardCreate("p1")
  \/ WithdrawalTx("p1")
  \/ UpdateAccountTx("p1")
  \/ DeleteCustomerTx("p1")
  \/ RouteAudit("p1")
  \/ RouteSave("p1")
  \/ StartVerificationStart("p1", "agent", "ph1")
  \/ StartVerificationCreate("p1")
  \/ VerifyAudit("p1")
  \/ \E answer \in {"right", "wrong"}, q \in Asked("s1") :
       AnswerStart("p1", "agent", "s1", q, answer)
  \/ AnswerExpire("p1")
  \/ AnswerWrite("p1")
  \/ SessionExpires("s1")

AuditSpec == AuditInit /\ [][AuditNext]_vars

\* The employee and API-token services called by two callers at once: a
\* seeded employee who logs in and refreshes, a BOT employee who is created,
\* whose token is regenerated and used, and the deactivation of either.
StaffInit == Boot(StaffRequests)

StaffNext ==
  \/ \E p \in Procs : CreateEmployeeStart(p, "e2", "BOT", FALSE)
  \/ \E p \in Procs : CreateEmployeeCreate(p)
  \/ \E p \in Procs : CreateEmployeeToken(p)
  \/ \E p \in Procs, e \in EmployeeIds : DeactivateEmployeeStart(p, e)
  \/ \E p \in Procs : DeactivateEmployeeTx(p)
  \/ \E p \in Procs : RegenerateStart(p, "e2")
  \/ \E p \in Procs : RegenerateRevoke(p)
  \/ \E p \in Procs : RegenerateCreate(p)
  \/ \E p \in Procs, t \in DOMAIN apiTokens : ValidateApiTokenStart(p, t)
  \/ \E p \in Procs : ValidateApiTokenTouch(p)
  \/ \E p \in Procs : LoginStart(p, "employee", "e1", TRUE)
  \/ \E p \in Procs : LoginCreate(p)
  \/ \E p \in Procs, t \in 1..issued : RefreshStart(p, "employee", t)
  \/ \E p \in Procs : RefreshRotate(p)

StaffSpec == StaffInit /\ [][StaffNext]_vars

\* Customers who log in, get cards and deposits, and are deleted, one call
\* at a time.
CloseInit == Boot(CloseRequests)

CloseNext ==
  \/ \E c \in Customers : LoginStart("p1", "customer", c, TRUE)
  \/ LoginCreate("p1")
  \/ \E a \in {"a1", "a2"} : CreateCardStart("p1", a, "DEBIT", Absent)
  \/ CreateCardCreate("p1")
  \/ \E a \in {"a1", "a3"} : DepositStart("p1", a, 1)
  \/ DepositTx("p1")
  \/ \E c \in CustomerIds : DeleteCustomerStart("p1", c)
  \/ DeleteCustomerTx("p1")

CloseSpec == CloseInit /\ [][CloseNext]_vars

\* Payments and deposits by two callers, the settlement timers, and the
\* shutdown of the server.  The event loop runs every callback whose timer
\* is armed and has expired, as long as the process lives.
PayTimers ==
  [payment : 1..(PayRequests + 1), txn : 1..(PayRequests + 1)]

PayInit == Boot(PayRequests)

PayNext ==
  \/ \E p \in Procs, a \in {"a1", "a2"} : PaymentStart(p, a, 1)
  \/ \E p \in Procs : PaymentTx(p)
  \/ \E t \in timers : PaymentSettle(t)
  \/ \E p \in Procs : DepositStart(p, "a1", 1)
  \/ \E p \in Procs : DepositTx(p)
  \/ Shutdown

PayLiveSpec ==
  /\ PayInit
  /\ [][PayNext]_vars
  /\ \A t \in PayTimers : WF_vars(PaymentSettle(t))

\* Logins with a wrong password and refreshes with an unknown token from
\* two clients, the sweep, and a clock that moves by 7 or 8 minutes, so
\* that requests come 14, 15 and 16 minutes apart.  The run starts in the
\* first minute, after client ip1 has sent some logins.
RateInit ==
  LET k1 == <<"ip1", "/api/v1/admin/auth/login">>
      early == [i \in 1..EarlyLogins |-> 0]
  IN BootFull(RateRequests, InitBalance, <<>>, SeededEmployees, <<>>,
              [k \in RateKeys |->
                 IF k = k1 THEN [exists |-> TRUE, timestamps |-> early]
                 ELSE NoEntry],
              [k \in RateKeys |-> IF k = k1 THEN early ELSE <<>>])

RateNext ==
  \/ \E ip \in {"ip1", "ip2"} : RateLimited("p1", ip, LoginPost(Employee, FALSE))
  \/ RateLimited("p1", "ip1", RefreshPost(0))
  \/ Sweep
  \/ \E d \in {7, 8} : ClockAdvances(d)

RateSpec == RateInit /\ [][RateNext]_vars

\* The hourly pass over records and refresh tokens of both kinds as they are
\* created and grow old, while the database rejects deletions now and then.
SweepInit == Boot(SweepRequests)

SweepNext ==
  \/ \E kind \in Kinds : LoginStart("p1", kind, IF kind = "customer" THEN "c1" ELSE Employee, TRUE)
  \/ LoginCreate("p1")
  \/ RouteStart("p1", WithdrawalPost("a1", 1, "TELLER", "K1", 0))
  \/ RouteHandler("p1")
  \/ WithdrawalTx("p1")
  \/ RouteAudit("p1")
  \/ RouteSave("p1")
  \/ RecordAges("K1")
  \/ \E row \in tokens : TokenExpires(row)
  \/ \E d \in Deletions : FaultBegins(d)
  \/ \E d \in Deletions : FaultEnds(d)
  \/ CleanupRecords
  \/ CleanupTokens
  \/ CleanupEmployeeTokens

SweepSpec == SweepInit /\ [][SweepNext]_vars

\* Cards and the closing of their account, called from two request slots
\* whose database calls interleave.
CardRaceInit == Boot(CardRaceRequests)

CardRaceNext ==
  \/ \E p \in Procs : CreateCardStart(p, "a1", "DEBIT", Absent)
  \/ \E p \in Procs : CreateCardCreate(p)
  \/ \E p \in Procs, st \in {"ACTIVE", "BLOCKED"} :
       UpdateCardStart(p, "k1", st, Absent)
  \/ \E p \in Procs : UpdateCardExpire(p)
  \/ \E p \in Procs : UpdateCardWrite(p)
  \/ \E p \in Procs : BlockCardStart(p, "c1", "k1")
  \/ \E p \in Procs : BlockCardWrite(p)
  \/ \E p \in Procs : BlockCardAudit(p)
  \/ \E p \in Procs : UpdateAccountStart(p, "a1", "CLOSED")
  \/ \E p \in Procs : UpdateAccountTx(p)
  \/ \E p \in Procs : DeleteCustomerStart(p, "c1")
  \/ \E p \in Procs : DeleteCustomerTx(p)
  \/ ExpiryPasses("k1")

CardRaceSpec == CardRaceInit /\ [][CardRaceNext]_vars

\* Withdrawals on every channel from an account whose cards are issued,
\* blocked and unblocked and pass their expiry, one call at a time.
GateInit == BootWith(GateRequests, AtmBalance, <<>>)

GateNext ==
  \/ \E amount \in 1..CardDailyLimit, ch \in Channels :
       WithdrawalStart("p1", "a1", amount, ch)
  \/ WithdrawalTx("p1")
  \/ WithdrawalCommit("p1")
  \/ WithdrawalExpire("p1")
  \/ \E ty \in CardTypes : CreateCardStart("p1", "a1", ty, Absent)
  \/ CreateCardCreate("p1")
  \/ \E st \in {"ACTIVE", "BLOCKED"} : UpdateCardStart("p1", "k1", st, Absent)
  \/ UpdateCardExpire("p1")
  \/ UpdateCardWrite("p1")
  \/ \E k \in CardIds : ExpiryPasses(k)
  \/ DayPasses

GateSpec == GateInit /\ [][GateNext]_vars

\* A customer logs in and refreshes while an admin changes the customer's
\* status or deletes the customer, one call at a time.
SuspendInit == Boot(SuspendRequests)

SuspendNext ==
  \/ \E valid \in BOOLEAN : LoginStart("p1", "customer", "c1", valid)
  \/ LoginCreate("p1")
  \/ \E t \in 0..issued : RefreshStart("p1", "customer", t)
  \/ RefreshExpire("p1")
  \/ RefreshRotate("p1")
  \/ \E st \in CustomerStatuses : UpdateCustomerStart("p1", "c1", st)
  \/ UpdateCustomerWrite("p1")
  \/ DeleteCustomerStart("p1", "c1")
  \/ DeleteCustomerTx("p1")
  \/ \E row \in tokens : TokenExpires(row)

SuspendSpec == SuspendInit /\ [][SuspendNext]_vars

\* The ledger of accounts opened with balance 0 (the column's default): the
\* money-moving services, called from two request slots whose database
\* calls interleave.
BooksInit == BootWith(BooksRequests, 0, <<>>)

BooksNext ==
  \/ \E p \in Procs, f \in LedgerAccounts, t \in LedgerAccounts,
        first \in {"from", "to"} : TransferStart(p, f, t, 1, first)
  \/ \E p \in Procs : TransferRead(p)
  \/ \E p \in Procs : TransferTx(p)
  \/ \E p \in Procs : PaymentStart(p, "a1", 1)
  \/ \E p \in Procs : PaymentTx(p)
  \/ \E t \in timers : PaymentSettle(t)
  \/ \E p \in Procs, m \in LedgerAmounts : DepositStart(p, "a1", m)
  \/ \E p \in Procs : DepositTx(p)
  \/ \E p \in Procs, ch \in LedgerChannels : WithdrawalStart(p, "a1", 1, ch)
  \/ \E p \in Procs : WithdrawalTx(p)
  \/ \E p \in Procs : WithdrawalCommit(p)

BooksSpec == BooksInit /\ [][BooksNext]_vars

\* ------------------------------------------------------------ properties

\* Slot p sends its response in this step.
Completes(p) == pc'[p] = "done" /\ (pc[p] # "done" \/ req'[p] # req[p])

\* The request slot p is serving once the step is taken.
Served(p) == req'[p]

LedgerUnchanged == UNCHANGED <<balance, ledgerVars>>

\* The account a request takes money from.
Debited(r) == IF r.op = "transfer" THEN r.fromAccountId ELSE r.accountId
DebitOps == {"transfer", "payment", "withdrawal"}

\* A request asking for more than the debited account holds.
Overdraft(r) ==
  /\ r.op \in DebitOps
  /\ Debited(r) \in Accounts
  /\ r.amount > balance[Debited(r)]

\* Nothing but the balance stands between the request and its execution.
Eligible(r) ==
  /\ accStatus[Debited(r)] = "ACTIVE"
  /\ r.op = "transfer" =>
       /\ r.toAccountId \in Accounts
       /\ r.toAccountId # r.fromAccountId
       /\ accStatus[r.toAccountId] = "ACTIVE"
       /\ AccountCurrency(r.toAccountId) = AccountCurrency(r.fromAccountId)

\* C1: a createTransfer of amount A from X to Y that returns successfully
\* has, in the step of its transaction, lowered balance(X) by A, raised
\* balance(Y) by A, changed no other balance, appended exactly one DEBIT row
\* on X and one CREDIT row on Y whose balanceAfter are the new balances, and
\* appended exactly one Transfer row with status COMPLETED.
C1_TransferEffect ==
  [][\A p \in Procs :
       (Completes(p) /\ Served(p).op = "transfer" /\ IsSuccess(resp'[p]))
       => LET r == Served(p)
              X == r.fromAccountId
              Y == r.toAccountId
          IN /\ balance'[X] = balance[X] - r.amount
             /\ balance'[Y] = balance[Y] + r.amount
             /\ \A a \in Accounts \ {X, Y} : balance'[a] = balance[a]
             /\ Len(txns') = Len(txns) + 2
             /\ SubSeq(txns', 1, Len(txns)) = txns
             /\ txns'[Len(txns) + 1] =
                  [accountId |-> X, type |-> "DEBIT", amount |-> r.amount,
                   balanceAfter |-> balance'[X], status |-> "COMPLETED"]
             /\ txns'[Len(txns) + 2] =
                  [accountId |-> Y, type |-> "CREDIT", amount |-> r.amount,
                   balanceAfter |-> balance'[Y], status |-> "COMPLETED"]
             /\ Len(transfers') = Len(transfers) + 1
             /\ SubSeq(transfers', 1, Len(transfers)) = transfers
             /\ transfers'[Len(transfers') ].status = "COMPLETED"
             /\ transfers'[Len(transfers')].fromAccountId = X
             /\ transfers'[Len(transfers')].toAccountId = Y
             /\ transfers'[Len(transfers')].amount = r.amount
             /\ resp'[p].body = transfers'[Len(transfers')]
  ]_vars

\* A transfer has returned successfully while another request was in flight.
C1_Witness ==
  \E p \in Procs, q \in Procs :
    /\ p # q
    /\ pc[p] = "done" /\ req[p].op = "transfer" /\ IsSuccess(resp[p])
    /\ Len(transfers) = 1
    /\ pc[q] \notin {"idle", "done"}

\* C2: withdrawals alone never take an account's balance below zero (two
\* concurrent withdrawals whose sum exceeds the balance do not both succeed).
C2_NoOverdraw ==
  (Len(transfers) = 0 /\ Len(payments) = 0 /\ Len(deposits) = 0)
  => \A a \in Accounts : balance[a] >= 0

\* C3 as stated: every transfer, payment or withdrawal asking for more than
\* the current balance of the debited account fails with INSUFFICIENT_FUNDS
\* and changes no balance and no ledger row.
C3_AsStated ==
  [][\A p \in Procs :
       (Completes(p) /\ Overdraft(Served(p)))
       => (resp'[p].code = "INSUFFICIENT_FUNDS" /\ LedgerUnchanged)
  ]_vars

\* C3, amended: a transfer, payment or withdrawal asking for more than the
\* current balance of the debited account never succeeds and changes no
\* balance and no ledger row; it fails with INSUFFICIENT_FUNDS when every
\* account involved is ACTIVE and a transfer's accounts are two existing
\* accounts of one currency (otherwise an earlier check names the error).
C3_OverdraftRejected ==
  [][\A p \in Procs :
       (Completes(p) /\ Overdraft(Served(p)))
       => /\ ~IsSuccess(resp'[p])
          /\ LedgerUnchanged
          /\ Eligible(Served(p)) => resp'[p].code = "INSUFFICIENT_FUNDS"
  ]_vars

\* A transfer between two ACTIVE accounts was refused for lack of funds.
C3_Witness ==
  /\ pc["p1"] = "done"
  /\ req["p1"].op = "transfer"
  /\ resp["p1"].code = "INSUFFICIENT_FUNDS"
  /\ req["p1"].amount > balance[req["p1"].fromAccountId]
  /\ Len(txns) > 0

\* The status that decides a request: of its account, or for a transfer of
\* the source unless the source is ACTIVE, then of the destination.
GateStatus(r) ==
  IF r.op # "transfer" THEN accStatus[r.accountId]
  ELSE IF accStatus[r.fromAccountId] # "ACTIVE" THEN accStatus[r.fromAccountId]
  ELSE accStatus[r.toAccountId]

\* A deposit, withdrawal, payment or transfer with a positive amount on
\* existing accounts (two different ones for a transfer).
Gated(r) ==
  /\ r.op \in {"deposit", "withdrawal", "payment", "transfer"}
  /\ r.amount > 0
  /\ IF r.op = "transfer"
       THEN /\ r.fromAccountId \in Accounts
            /\ r.toAccountId \in Accounts
            /\ r.fromAccountId # r.toAccountId
       ELSE r.accountId \in Accounts

C8_ClosedAbsorbing ==
  [][/\ \A a \in Accounts :
          accStatus[a] = "CLOSED" => accStatus'[a] = "CLOSED"
     /\ \A p \in Procs :
          /\ (req'[p] # req[p] /\ Served(p).op = "updateAccount"
                 /\ Served(p).accountId \in Accounts)
             => IF accStatus[Served(p).accountId] = "CLOSED"
                  THEN /\ pc'[p] = "done"
                       /\ resp'[p].status = 422
                       /\ resp'[p].code = "VALIDATION_ERROR"
                       /\ UNCHANGED storeVars
                  ELSE pc'[p] = "updateAccount_tx"
          /\ (Completes(p) /\ pc[p] = "updateAccount_tx")
             => /\ IsSuccess(resp'[p])
                /\ accStatus'[req[p].accountId] = req[p].status
  ]_vars

\* C9: once a customer is CLOSED its status never changes again.
C9_CustomerClosedTerminal ==
  [][\A c \in Customers :
       custStatus[c] = "CLOSED" => custStatus'[c] = "CLOSED"]_vars

\* The status changes a card may undergo.
CardMoves ==
  {<<"ACTIVE", "BLOCKED">>, <<"BLOCKED", "ACTIVE">>, <<"ACTIVE", "EXPIRED">>,
   <<"BLOCKED", "EXPIRED">>, <<"ACTIVE", "CANCELLED">>,
   <<"BLOCKED", "CANCELLED">>, <<"EXPIRED", "CANCELLED">>}

\* Slot p asks updateCard for a status change the card's status allows, on
\* a card that has not expired, with a daily limit (if any) that is valid.
LegalToggle(p) ==
  LET r == Served(p)
  IN /\ r.op = "updateCard"
     /\ r.cardId \in CardIds
     /\ cards[r.cardId].exists
     /\ ~IsCardExpired(r.cardId)
     /\ r.dailyLimit.given => r.dailyLimit.value > 0
     /\ \/ cards[r.cardId].status = "ACTIVE" /\ r.status = "BLOCKED"
        \/ cards[r.cardId].status = "BLOCKED" /\ r.status = "ACTIVE"

\* C10: under any sequence of updateCard, deleteCard, bot block-card, ATM
\* withdrawal and account or customer closure a card's status moves only
\* ACTIVE<->BLOCKED, ACTIVE/BLOCKED->EXPIRED, and to CANCELLED; it becomes
\* EXPIRED only in the expiry check of a card past its expiry month, never
\* by a target status the client supplied; from EXPIRED it only becomes
\* CANCELLED; CANCELLED is final; and updateCard accepts ACTIVE->BLOCKED and
\* BLOCKED->ACTIVE.
C10_CardLifecycle ==
  [][/\ \A k \in CardIds :
          cards[k].exists
          => /\ cards'[k].exists
             /\ \/ cards'[k].status = cards[k].status
                \/ <<cards[k].status, cards'[k].status>> \in CardMoves
             /\ (cards'[k].status = "EXPIRED" /\ cards[k].status # "EXPIRED")
                => /\ IsCardExpired(k)
                   /\ \E p \in Procs :
                        /\ pc[p] \in {"updateCard_expire", "withdrawal_expire"}
                        /\ Completes(p)
                        /\ resp'[p].code = "CARD_NOT_ACTIVE"
     /\ \A p \in Procs :
          /\ (Completes(p) /\ Served(p).op = "updateCard"
                 /\ Served(p).status \in {"EXPIRED", "CANCELLED"})
             => (~IsSuccess(resp'[p]) /\ pc[p] # "updateCard_write")
          /\ (Completes(p) /\ LegalToggle(p))
             => /\ IsSuccess(resp'[p])
                /\ cards'[Served(p).cardId].status = Served(p).status
  ]_vars

\* A card went EXPIRED in the expiry check, and a later updateCard asking to
\* make it ACTIVE again was refused.
C10_Witness ==
  /\ cards["k1"].status = "EXPIRED"
  /\ pc["p1"] = "done"
  /\ req["p1"].op = "updateCard"
  /\ req["p1"].cardId = "k1"
  /\ req["p1"].status = "ACTIVE"
  /\ resp["p1"].code = "CARD_NOT_ACTIVE"
  /\ budget <= CardRequests - 2

\* Two requests with the same Idempotency-Key, route and body text.
SameRequest(r1, r2) ==
  /\ r1.via.key = r2.via.key
  /\ r1.via.route = r2.via.route
  /\ BodyText(r1) = BodyText(r2)

\* The stored record of its key is for the very request r.
Recorded(r) ==
  /\ r.via.key # NoKey
  /\ idem[r.via.key].exists
  /\ idem[r.via.key].route = r.via.route
  /\ idem[r.via.key].body = BodyHash(r)

\* C4 as stated: once a request with key K, route R and body B has completed
\* successfully, every later request with the same K, R and B gets the same
\* status and body at once, and nothing is created.
C4_AsStated ==
  [][\A p \in Procs, q \in Procs :
       (/\ req'[p] # req[p]
        /\ Served(p).via.key # NoKey
        /\ pc[q] = "done"
        /\ IsSuccess(resp[q])
        /\ SameRequest(req[q], Served(p)))
       => /\ pc'[p] = "done"
          /\ resp'[p] = resp[q]
          /\ UNCHANGED <<storeVars, ledgerVars, audit>>
  ]_vars

\* C4, amended: a keyed request that completes successfully by running its
\* handler leaves a record holding exactly the status and body it answered
\* with; the record stays as written until the sweep deletes it, which it
\* does only once the record is older than 24 hours; and while the record
\* is stored, a request with the same key, route and body is answered with
\* the stored status and body at once, the handler does not run, and no
\* row of any table is created or changed.
C4_Replay ==
  [][/\ \A p \in Procs :
          /\ (req'[p] # req[p] /\ Recorded(Served(p)))
             => /\ pc'[p] = "done"
                /\ resp'[p].status = idem[Served(p).via.key].status
                /\ resp'[p].body = idem[Served(p).via.key].response
                /\ UNCHANGED <<storeVars, ledgerVars, routeVars>>
          /\ (Completes(p) /\ Served(p).via.key # NoKey
                 /\ IsSuccess(resp'[p]) /\ req'[p] = req[p])
             => /\ pc[p] = "route_save"
                /\ idem'[req[p].via.key].exists
                /\ idem'[req[p].via.key].route = req[p].via.route
                /\ idem'[req[p].via.key].body = BodyHash(req[p])
                /\ idem'[req[p].via.key].status = resp'[p].status
                /\ idem'[req[p].via.key].response = resp'[p].body
     /\ \A k \in Keys :
          idem[k].exists
          => IF idem'[k].exists
               THEN [idem'[k] EXCEPT !.stale = FALSE]
                      = [idem[k] EXCEPT !.stale = FALSE]
               ELSE idem[k].stale
  ]_vars

\* Two slots were answered 201 with one body for one keyed withdrawal
\* request, and one withdrawal exists.
C4_Witness ==
  \E p \in Procs, q \in Procs :
    /\ p # q
    /\ pc[p] = "done" /\ pc[q] = "done"
    /\ req[p].via.key = "K1"
    /\ req[p].op = "withdrawal"
    /\ SameRequest(req[p], req[q])
    /\ IsSuccess(resp[p])
    /\ resp[p] = resp[q]
    /\ Len(withdrawals) = 1

HoldsPlain(x) ==
  \/ "cardNumber" \in DOMAIN x /\ x.cardNumber.form = "plain"
  \/ "cvv" \in DOMAIN x /\ x.cvv.form = "plain"

\* C6: no Card, IdempotencyRecord or AuditLog row ever holds a card number
\* or CVV in plaintext, and the only response that carries them is the one
\* sent by the handler that created the card.
C6_PlaintextOnlyOnCreation ==
  [][/\ \A k \in CardIds : cards'[k].exists => ~HoldsPlain(cards'[k])
     /\ \A key \in Keys :
          idem'[key].exists => ~HoldsPlain(idem'[key].response)
     /\ \A i \in 1..Len(audit') : ~HoldsPlain(audit'[i].details)
     /\ \A p \in Procs :
          (Completes(p) /\ HoldsPlain(resp'[p].body))
          => pc[p] \in {"createCard_create", "route_audit", "route_save"}
  ]_vars

\* COMPLETED ATM withdrawals on account a created on day d, summed.
AtmTotalOn(a, d) ==
  LET Mine(w) == /\ w.accountId = a
                 /\ w.channel = "ATM"
                 /\ w.status = "COMPLETED"
                 /\ w.day = d
  IN SumAmounts(SelectSeq(withdrawals, Mine))

\* On every day, the ATM withdrawals on the account of a debit card sum to
\* at most the card's daily limit.
WithinDailyLimit ==
  \A k \in CardIds :
    (cards[k].exists /\ cards[k].type = "DEBIT")
    => \A d \in 0..MaxDays :
         AtmTotalOn(cards[k].accountId, d) <= cards[k].dailyLimit

C12_LimitUnderRace == WithinDailyLimit

\* C13: a refresh that succeeds presenting the value t found the row of t,
\* deletes it and creates exactly one row, for the same principal in the
\* same table, whose value it returns; a value whose row is gone never has a
\* row again; so of all the refresh calls presenting one value, however they
\* interleave, at most one succeeds.
C13_RotateOnce ==
  [][/\ \A p \in Procs :
          (Completes(p) /\ Served(p).op = "refresh" /\ IsSuccess(resp'[p]))
          => LET r == Served(p)
                 old == TokenRows(r.kind, r.token)
                 new == tokens' \ tokens
             IN /\ old # {}
                /\ tokens \ tokens' = old
                /\ \A row \in tokens' : ~(/\ row.kind = r.kind
                                            /\ row.token = HashToken(r.token))
                /\ Cardinality(new) = 1
                /\ \A row \in new :
                     /\ row.kind = r.kind
                     /\ \A o \in old : row.principal = o.principal
                     /\ row.token = HashToken(resp'[p].body.refreshToken)
                     /\ ~row.expired
     /\ \A kind \in Kinds, t \in 1..issued :
          TokenRows(kind, t) = {} => TokenRows(kind, t)' = {}
     /\ \A p \in Procs, q \in Procs :
          (/\ p # q
           /\ pc'[p] = "done" /\ pc'[q] = "done"
           /\ req'[p].op = "refresh" /\ req'[q].op = "refresh"
           /\ req'[p].kind = req'[q].kind
           /\ req'[p].token = req'[q].token)
          => ~(IsSuccess(resp'[p]) /\ IsSuccess(resp'[q]))
  ]_vars

\* Two refresh calls presenting the same value ran at once: one was answered
\* with the new token, the other failed.
C13_Witness ==
  \E p \in Procs, q \in Procs :
    /\ p # q
    /\ pc[p] = "done" /\ pc[q] = "done"
    /\ req[p].op = "refresh" /\ req[q].op = "refresh"
    /\ req[p].kind = req[q].kind
    /\ req[p].token = req[q].token
    /\ IsSuccess(resp[p])
    /\ resp[q].code = "INTERNAL_ERROR"

TerminalStatuses == {"VERIFIED", "FAILED", "EXPIRED"}

\* Slot p takes up an answerQuestion request whose body has all its fields.
Answering(p) ==
  /\ req'[p] # req[p]
  /\ Served(p).op = "answerQuestion"
  /\ Served(p).answer # ""
  /\ Served(p).questionId # NoQuestion
  /\ Served(p).sessionId \in SessionIds
  /\ sessions[Served(p).sessionId].exists

\* C14: a session that is VERIFIED, FAILED or EXPIRED keeps its status for
\* good, whatever answerQuestion calls run and however they interleave: the
\* status changes only from IN_PROGRESS, to VERIFIED, FAILED or EXPIRED; and
\* answerQuestion on a session in one of the three fails 404 NOT_FOUND.
C14_TerminalSessions ==
  [][/\ \A s \in SessionIds :
          (sessions[s].exists /\ sessions'[s].status # sessions[s].status)
          => /\ sessions[s].status = "IN_PROGRESS"
             /\ sessions'[s].status \in TerminalStatuses
     /\ \A p \in Procs :
          (Answering(p)
             /\ sessions[Served(p).sessionId].status \in TerminalStatuses)
          => /\ pc'[p] = "done"
             /\ resp'[p].status = 404
             /\ resp'[p].code = "NOT_FOUND"
             /\ UNCHANGED sessions
  ]_vars

\* The questions of the session answered so far were all answered correctly.
AllCorrect(x) ==
  x.correctAnswers = Len(x.questionsAsked)
                       - (IF x.status = "IN_PROGRESS" THEN 1 ELSE 0)

\* C15: a session in which every question answered so far was answered
\* correctly is never FAILED; while it is IN_PROGRESS its confidence is
\* under 0.75 and questions of the customer's pool are still unasked; it has
\* been asked at most four questions (three are enough for a customer with
\* cards, four for one without); and a VERIFIED session has reached 0.75.
C15_AllCorrectVerifies ==
  \A s \in SessionIds :
    LET x == sessions[s]
    IN (x.exists /\ x.status # "EXPIRED")
       => /\ x.status = "VERIFIED" => ReachesThreshold(x.confidence)
          /\ AllCorrect(x)
             => /\ x.status # "FAILED"
                /\ Len(x.questionsAsked) <= 4
                /\ HasCards(x.customerId) => Len(x.questionsAsked) <= 3
                /\ x.status = "IN_PROGRESS"
                   => /\ ~ReachesThreshold(x.confidence)
                      /\ Available(x.customerId, Range(x.questionsAsked)) # {}

\* A customer without cards answered four questions, all correctly, and the
\* session is VERIFIED at 0.85.
C15_Witness ==
  /\ sessions["s1"].exists
  /\ sessions["s1"].customerId = "c2"
  /\ sessions["s1"].status = "VERIFIED"
  /\ sessions["s1"].correctAnswers = 4
  /\ Len(sessions["s1"].questionsAsked) = 4
  /\ sessions["s1"].confidence = Exactly(Hundredths(85))
  /\ pc["p1"] = "done"
  /\ "accessToken" \in DOMAIN resp["p1"].body

\* C16: answerQuestion on an IN_PROGRESS session whose expiresAt has passed
\* goes, whatever question id and answer it carries, to the write that sets
\* the session EXPIRED and changes nothing else of it, and fails with
\* SESSION_EXPIRED; the response carries no token and no audit row is
\* written.
C16_ExpiredSession ==
  [][\A p \in Procs :
       /\ (Answering(p)
              /\ sessions[Served(p).sessionId].status = "IN_PROGRESS"
              /\ sessions[Served(p).sessionId].expired)
          => (pc'[p] = "answer_expire" /\ UNCHANGED <<sessions, audit>>)
       /\ (pc[p] = "answer_expire" /\ pc'[p] # pc[p])
          => /\ sessions' = [sessions EXCEPT
                               ![req[p].sessionId].status = "EXPIRED"]
             /\ pc'[p] = "done"
             /\ resp'[p].status = 422
             /\ resp'[p].code = "SESSION_EXPIRED"
             /\ resp'[p].body = NoBody
             /\ UNCHANGED audit
  ]_vars

\* The right answer to the question asked was refused on an expired
\* session, which is EXPIRED with the confidence it had.
C16_Witness ==
  /\ sessions["s1"].exists
  /\ sessions["s1"].status = "EXPIRED"
  /\ sessions["s1"].confidence = Exactly(Hundredths(55))
  /\ sessions["s1"].correctAnswers = 2
  /\ pc["p1"] = "done"
  /\ req["p1"].op = "answerQuestion"
  /\ req["p1"].answer = "right"
  /\ req["p1"].questionId = Last(sessions["s1"].questionsAsked)
  /\ resp["p1"].code = "SESSION_EXPIRED"

NoDuplicates(seq) ==
  \A i \in 1..Len(seq), j \in 1..Len(seq) : seq[i] = seq[j] => i = j

\* C17: in every state questionsAsked holds no question id twice and never
\* phone_number; every update of a session leaves the list as it was or
\* appends one id to it; and answerQuestion with an id other than the last
\* of the list fails with 422 VALIDATION_ERROR and leaves the session as it
\* was.
C17_QuestionsAsked ==
  [][/\ \A s \in SessionIds :
          sessions'[s].exists
          => /\ NoDuplicates(sessions'[s].questionsAsked)
             /\ "phone_number" \notin Range(sessions'[s].questionsAsked)
             /\ sessions[s].exists
                => \/ sessions'[s].questionsAsked = sessions[s].questionsAsked
                   \/ \E q \in QuestionIds :
                        sessions'[s].questionsAsked
                          = Append(sessions[s].questionsAsked, q)
     /\ \A p \in Procs :
          (Answering(p)
             /\ sessions[Served(p).sessionId].status = "IN_PROGRESS"
             /\ ~sessions[Served(p).sessionId].expired
             /\ Served(p).questionId
                  # Last(sessions[Served(p).sessionId].questionsAsked))
          => /\ pc'[p] = "done"
             /\ resp'[p].status = 422
             /\ resp'[p].code = "VALIDATION_ERROR"
             /\ UNCHANGED sessions
  ]_vars

\* C18: in every state the confidence of a session is at least 0.0 and at
\* most 1.0; the update of an answer adds the weight of the question if the
\* answer is correct and takes half the weight off if it is not, and a
\* result under 0 is stored as 0.
C18_ConfidenceRange ==
  [][/\ \A s \in SessionIds :
          sessions'[s].exists
          => /\ sessions'[s].confidence.units >= 0
             /\ sessions'[s].confidence.units <= Scale
     /\ \A p \in Procs :
          (pc[p] = "answer_write" /\ pc'[p] # pc[p])
          => LET r == req[p]
                 old == sessions[r.sessionId]
                 new == sessions'[r.sessionId]
                 w == Weight(r.questionId)
                 sum == IF CheckAnswer(r.questionId, r.answer, old.customerId)
                          THEN old.confidence.units + w
                          ELSE old.confidence.units - (w \div 2)
             IN /\ new.confidence.units = IF sum < 0 THEN 0 ELSE sum
                /\ 2 * (w \div 2) = w
  ]_vars

\* A wrong answer took a confidence of 0.05 down to the floor of 0.
C18_Witness ==
  /\ sessions["s1"].exists
  /\ sessions["s1"].confidence = Exactly(0)
  /\ sessions["s1"].correctAnswers = 1
  /\ Len(sessions["s1"].questionsAsked) >= 4
  /\ pc["p1"] = "done"
  /\ req["p1"].op = "answerQuestion"
  /\ IsSuccess(resp["p1"])
  /\ ~resp["p1"].body.correct

\* The value carries an access token or a bot session token.
HasToken(x) == "accessToken" \in DOMAIN x \/ "botSessionToken" \in DOMAIN x

\* C19: the verification routes answer with a token only for the
\* answerQuestion call whose update moved the session from IN_PROGRESS to
\* VERIFIED with a confidence of at least 0.75, and the session is VERIFIED
\* when that answer is sent; no other call gets a token.
C19_TokenOnlyOnVerify ==
  [][\A p \in Procs :
       /\ (pc'[p] = "verify_audit" /\ pc[p] # "verify_audit"
              /\ HasToken(loc'[p].reply))
          => /\ pc[p] = "answer_write"
             /\ sessions[req[p].sessionId].status = "IN_PROGRESS"
             /\ sessions'[req[p].sessionId].status = "VERIFIED"
             /\ ReachesThreshold(sessions'[req[p].sessionId].confidence)
       /\ (Completes(p) /\ Served(p).op \in {"answerQuestion",
                                              "startVerification"}
              /\ HasToken(resp'[p].body))
          => /\ pc[p] = "verify_audit"
             /\ Served(p).op = "answerQuestion"
             /\ sessions[req[p].sessionId].status = "VERIFIED"
  ]_vars

\* The customer the resource (kind, id) belongs to, if it exists; a transfer
\* belongs to the owners of its two accounts.
OwnersOf(kind, id) ==
  IF kind \in AccountScoped
    THEN IF id \in Accounts THEN {AccountCustomer(id)} ELSE {}
    ELSE IF ~FindRow(kind, id).exists THEN {}
    ELSE IF kind = "transfer"
      THEN {AccountCustomer(FindRow(kind, id).row.fromAccountId),
            AccountCustomer(FindRow(kind, id).row.toAccountId)}
      ELSE {AccountCustomer(FindRow(kind, id).row.accountId)}

\* C20: a GET on the customer routes for an account, balance, transaction
\* list, transaction, payment, card, deposit or withdrawal of another
\* customer's account is answered 403 FORBIDDEN with an empty body; a GET of
\* a transfer succeeds only for the owner of its source or of its
\* destination account and is answered 403 with an empty body for anyone
\* else; and every Transfer row and Payment row a customer route creates
\* takes its money from an account of the customer who asked.
C20_Ownership ==
  [][\A p \in Procs :
       /\ (Completes(p) /\ Served(p).op = "get")
          => LET r == Served(p)
                 owners == OwnersOf(r.kind, r.id)
             IN /\ (owners # {} /\ r.via.customerId \notin owners)
                   => /\ resp'[p].status = 403
                      /\ resp'[p].code = "FORBIDDEN"
                      /\ resp'[p].body = NoBody
                /\ IsSuccess(resp'[p]) => r.via.customerId \in owners
       /\ (pc[p] = "transfer_tx" /\ pc'[p] # pc[p])
          => /\ Len(transfers') = Len(transfers) + 1
             /\ AccountCustomer(transfers'[Len(transfers')].fromAccountId)
                  = req[p].via.customerId
       /\ (pc[p] = "payment_tx" /\ pc'[p] # pc[p])
          => /\ Len(payments') = Len(payments) + 1
             /\ AccountCustomer(payments'[Len(payments')].accountId)
                  = req[p].via.customerId
       /\ (Len(transfers') # Len(transfers) => pc["p1"] = "transfer_tx")
       /\ (Len(payments') # Len(payments) => pc["p1"] = "payment_tx")
  ]_vars

\* Customer c2 asked for a payment made from c1's account and was refused.
C20_Witness ==
  /\ Len(payments) >= 1
  /\ payments[1].accountId = "a1"
  /\ pc["p1"] = "done"
  /\ req["p1"].op = "get"
  /\ req["p1"].kind = "payment"
  /\ req["p1"].id = 1
  /\ req["p1"].via.customerId = "c2"
  /\ resp["p1"].code = "FORBIDDEN"

\* Everything the bot's routes could change besides the cards and the audit
\* log.
BotLeavesAlone ==
  UNCHANGED <<custStatus, accStatus, balance, clockVars, sweepVars, limitVars, staffVars, authVars, ledgerVars,
              idem>>

\* C21: a request of the bot for the session's customer C is answered only
\* with rows of C; the transactions of an account that is not C's, or of no
\* account, are refused with 404 NOT_FOUND; block-card on a card that is not
\* C's is refused with 404 NOT_FOUND and on a card of C that is not ACTIVE
\* with 422 VALIDATION_ERROR, both without any change; and the only change a
\* bot request makes is to set an ACTIVE card of C to BLOCKED and to write
\* the audit row of it.
C21_BotScope ==
  [][\A p \in Procs :
       /\ (Completes(p) /\ Served(p).op = "botGet")
          => LET r == Served(p)
                 c == r.customerId
                 body == resp'[p].body
             IN /\ UNCHANGED <<storeVars, clockVars, sweepVars, limitVars, staffVars, authVars, ledgerVars,
                               routeVars>>
                /\ r.kind = "customer" => (IsSuccess(resp'[p]) /\ body.id = c)
                /\ r.kind = "accounts"
                   => /\ IsSuccess(resp'[p])
                      /\ \A row \in body.data : row.customerId = c
                /\ r.kind = "cards"
                   => /\ IsSuccess(resp'[p])
                      /\ \A row \in body.data :
                           AccountCustomer(row.accountId) = c
                /\ r.kind = "transactions"
                   => IF r.id \in AccountsOf(c)
                        THEN /\ IsSuccess(resp'[p])
                             /\ \A i \in 1..Len(body.data) :
                                  body.data[i].accountId = r.id
                        ELSE /\ resp'[p].status = 404
                             /\ resp'[p].code = "NOT_FOUND"
                             /\ body = NoBody
       /\ (req'[p] # req[p] /\ Served(p).op = "blockCard")
          => LET r == Served(p)
                 card == CardRow(r.cardId)
                 own == card.exists
                        /\ AccountCustomer(card.accountId) = r.customerId
             IN /\ UNCHANGED <<storeVars, clockVars, sweepVars, limitVars, staffVars, authVars, ledgerVars,
                               routeVars>>
                /\ ~own => /\ pc'[p] = "done"
                           /\ resp'[p].status = 404
                           /\ resp'[p].code = "NOT_FOUND"
                           /\ resp'[p].body = NoBody
                /\ (own /\ card.status # "ACTIVE")
                   => /\ pc'[p] = "done"
                      /\ resp'[p].status = 422
                      /\ resp'[p].code = "VALIDATION_ERROR"
       /\ (pc[p] = "blockCard_write" /\ pc'[p] # pc[p])
          => LET k == req[p].cardId
             IN /\ AccountCustomer(cards[k].accountId) = req[p].customerId
                /\ cards[k].status = "ACTIVE"
                /\ cards' = [cards EXCEPT ![k].status = "BLOCKED"]
                /\ UNCHANGED audit
                /\ BotLeavesAlone
       /\ (pc[p] = "blockCard_audit" /\ pc'[p] # pc[p])
          => /\ UNCHANGED cards
             /\ Len(audit') = Len(audit) + 1
             /\ BotLeavesAlone
  ]_vars

\* The bot, in a session of c2, asked to block the ACTIVE card of c1 and was
\* answered 404; the card is ACTIVE still, and c2 has a card of their own.
C21_Witness ==
  /\ pc["p1"] = "done"
  /\ req["p1"].op = "blockCard"
  /\ req["p1"].customerId = "c2"
  /\ req["p1"].cardId = "k1"
  /\ cards["k1"].status = "ACTIVE"
  /\ cards["k2"].exists
  /\ resp["p1"].code = "NOT_FOUND"

\* The type of token each surface is for.
Audience(surface) ==
  CASE surface = "customer" -> "customer"
    [] surface = "admin" -> "employee"
    [] surface = "bot" -> "bot_session"

\* C22: a request that carries a token of one of the three types to a
\* surface of another audience is answered 401 UNAUTHORIZED; a request gets
\* past a middleware only with a bearer token that is signed by the server,
\* not expired, and of the surface's type (or, on the customer surface, with
\* no type claim at all); and the middlewares answer nothing but 401.
C22_Audience ==
  [][\A p \in Procs :
       (Completes(p) /\ Served(p).op = "authenticate")
       => LET r == Served(p)
          IN /\ (r.header.scheme = "Bearer"
                   /\ r.header.token.type \in TokenTypes
                   /\ r.header.token.type # Audience(r.surface))
                => /\ resp'[p].status = 401
                   /\ resp'[p].code = "UNAUTHORIZED"
             /\ IsSuccess(resp'[p])
                => /\ r.header.scheme = "Bearer"
                   /\ r.header.token.signed
                   /\ ~r.header.token.expired
                   /\ \/ r.header.token.type = Audience(r.surface)
                      \/ r.surface = "customer" /\ r.header.token.type = NoType
             /\ ~IsSuccess(resp'[p]) => resp'[p].status = 401
  ]_vars

\* A valid employee token was refused on a customer route and a valid
\* customer token on a bot route.
C22_Witness ==
  /\ pc["p1"] = "done"
  /\ req["p1"].op = "authenticate"
  /\ req["p1"].surface = "customer"
  /\ req["p1"].header =
       [scheme |-> "Bearer",
        token |-> [type |-> "employee", signed |-> TRUE, expired |-> FALSE]]
  /\ resp["p1"].code = "UNAUTHORIZED"
  /\ pc["p2"] = "done"
  /\ req["p2"].op = "authenticate"
  /\ req["p2"].surface = "bot"
  /\ req["p2"].header =
       [scheme |-> "Bearer",
        token |-> [type |-> "customer", signed |-> TRUE, expired |-> FALSE]]
  /\ resp["p2"].code = "UNAUTHORIZED"

\* Who may call each guarded route, as the roles are described.
MayCall(r, role) ==
  CASE r.op = "createCard" -> role \in {"TELLER", "ADMIN"}
    [] r.op = "withdrawal" -> role = "TELLER"
    [] r.op = "updateAccount" -> role = "ADMIN"
    [] r.op = "deleteCustomer" -> role = "ADMIN"

\* C23: a request to a guarded admin route by an employee whose role may
\* not call it is answered 403 FORBIDDEN with an empty body at once, also
\* when a response is stored for its Idempotency-Key and body: nothing of
\* the store, the ledger, the idempotency records or the audit log changes.
C23_RoleGate ==
  [][\A p \in Procs :
       (req'[p] # req[p] /\ "role" \in DOMAIN Served(p).via
          /\ ~MayCall(Served(p), Served(p).via.role))
       => /\ pc'[p] = "done"
          /\ resp'[p].status = 403
          /\ resp'[p].code = "FORBIDDEN"
          /\ resp'[p].body = NoBody
          /\ UNCHANGED <<storeVars, clockVars, sweepVars, limitVars, staffVars, authVars, ledgerVars,
                         routeVars>>
  ]_vars

\* A teller's withdrawal is stored under key K1; a call-center agent who
\* sent the same key and body was answered 403.
C23_Witness ==
  /\ idem["K1"].exists
  /\ idem["K1"].route = RouteWithdrawals
  /\ pc["p1"] = "done"
  /\ req["p1"].op = "withdrawal"
  /\ req["p1"].via.key = "K1"
  /\ req["p1"].via.role = "CALL_CENTER_AGENT"
  /\ idem["K1"].body = BodyHash(req["p1"])
  /\ resp["p1"].code = "FORBIDDEN"

\* The employee a request is made by, and the action tag of its operation.
ActingEmployee(r) ==
  IF "employeeId" \in DOMAIN r.via THEN r.via.employeeId ELSE Employee

ActionTag(r) ==
  CASE r.op = "createCard" -> "CARD_ISSUED"
    [] r.op = "withdrawal" -> "WITHDRAWAL_CREATED"
    [] r.op = "updateAccount" -> "ACCOUNT_STATUS_CHANGED"
    [] r.op = "deleteCustomer" -> "CUSTOMER_DELETED"
    [] r.op = "startVerification" -> "VERIFICATION_STARTED"
    [] r.op = "answerQuestion" -> "VERIFICATION_ANSWERED"

AuditStages == {"route_audit", "verify_audit"}

\* The rows a step has appended to the audit log.
Appended == SubSeq(audit', Len(audit) + 1, Len(audit'))

\* The audit log only grows.
AuditGrows ==
  Len(audit') >= Len(audit) /\ SubSeq(audit', 1, Len(audit)) = audit

\* The step of p that writes the audit rows of its request: after the
\* service call, which it leaves as it is, and before a response that is
\* not an error.
AuditStep(p) ==
  /\ pc[p] \in AuditStages
  /\ req'[p] = req[p]
  /\ UNCHANGED <<storeVars, ledgerVars, sessions, idem>>
  /\ \/ pc'[p] = "done" /\ resp'[p].status < 400
     \/ pc[p] = "route_audit" /\ pc'[p] = "route_save"

\* C24: a step appends rows to the audit log only as the audit step of an
\* admin mutation request whose service call has succeeded: one row with
\* the acting employee's id and the operation's action tag, followed, when
\* the step is that of the answer that verified the customer, by one
\* VERIFICATION_COMPLETED row of the same employee.  Each such request
\* takes the step once: it is the only way to a response that is not an
\* error, but for the replay of a stored response, and a request answered
\* with an error has appended nothing.
C24_AuditTrail ==
  [][/\ AuditGrows
     /\ Appended # <<>> =>
          \E p \in Procs :
            /\ AuditStep(p)
            /\ Appended[1].employeeId = ActingEmployee(req[p])
            /\ Appended[1].action = ActionTag(req[p])
            /\ IF req[p].op = "answerQuestion"
                    /\ sessions[req[p].sessionId].status = "VERIFIED"
                 THEN /\ Len(Appended) = 2
                      /\ Appended[2].employeeId = ActingEmployee(req[p])
                      /\ Appended[2].action = "VERIFICATION_COMPLETED"
                 ELSE Len(Appended) = 1
     /\ \A p \in Procs :
       /\ (pc[p] \in AuditStages /\ pc'[p] # pc[p]) =>
            AuditStep(p) /\ Appended # <<>>
       /\ (pc'[p] = "route_save" /\ pc[p] # "route_save") =>
            pc[p] = "route_audit"
       /\ (pc[p] = "route_save" /\ pc'[p] # pc[p]) =>
            pc'[p] = "done" /\ resp'[p].status < 400 /\ req'[p] = req[p]
       /\ (Completes(p) /\ resp'[p].status >= 400) =>
            audit' = audit /\ pc[p] \notin AuditStages \cup {"route_save"}
       /\ (Completes(p) /\ resp'[p].status < 400
              /\ pc[p] \notin AuditStages \cup {"route_save"}) =>
            /\ req'[p] # req[p]
            /\ Served(p).via.key # NoKey
            /\ idem[Served(p).via.key].exists
  ]_vars

\* A row of the second employee and the two rows of the answer that
\* verified a customer are in the audit log, and the last request has been
\* answered.
C24_Witness ==
  /\ \E i \in DOMAIN audit : audit[i].employeeId = "e2"
  /\ \E i \in DOMAIN audit :
       /\ i > 1
       /\ audit[i].action = "VERIFICATION_COMPLETED"
       /\ audit[i - 1].action = "VERIFICATION_ANSWERED"
  /\ pc["p1"] = "done"

\* C24 as stated: the audit step of an admin mutation request appends
\* exactly one row.
C24_ExactlyOneRow ==
  [][\A p \in Procs : AuditStep(p) => Len(Appended) = 1]_vars

\* The EmployeeRefreshToken rows of employee e.
RefreshTokensOf(e) ==
  {row \in tokens : row.kind = "employee" /\ row.principal = e}

\* A deactivated employee has no EmployeeRefreshToken row.
DeactivatedClean ==
  \A e \in EmployeeIds :
    (employees[e].exists /\ ~employees[e].active) => RefreshTokensOf(e) = {}

\* The deactivation leaves the employee without an active ApiToken, and an
\* API token is accepted only if its employee was active when it was read.
TokensOfActive ==
  \A p \in Procs :
    /\ (pc[p] = "deactivateEmployee_tx" /\ pc'[p] = "done"
          /\ req'[p] = req[p])
       => /\ ~employees'[req[p].employeeId].active
          /\ \A i \in DOMAIN apiTokens' :
               apiTokens'[i].employeeId = req[p].employeeId
                 => ~apiTokens'[i].active
    /\ (pc'[p] = "validate_touch" /\ req'[p] # req[p])
       => employees[loc'[p].employeeId].active

\* A rotation of a refresh token answers with an access token only for an
\* employee who is active.
RotatesForActive ==
  \A p \in Procs :
    (pc[p] = "refresh_rotate" /\ pc'[p] = "done" /\ req'[p] = req[p]
       /\ resp'[p].code = "OK")
    => employees[loc[p].record.principal].active

\* C25: a deactivated employee has active = false, no active ApiToken and
\* no EmployeeRefreshToken row, whatever logins, refreshes and token
\* regenerations ran beside the deactivation, and is not handed a new
\* access token.
C25_Deactivated ==
  []DeactivatedClean /\ [][RotatesForActive /\ TokensOfActive]_vars

\* C27: an employee has at most one active ApiToken, the one created last
\* for that employee, whatever creations and regenerations ran at once.
C27_OneActiveToken ==
  \A e \in EmployeeIds :
    \A i \in ActiveTokensOf(e) :
      \A j \in DOMAIN apiTokens : apiTokens[j].employeeId = e => j <= i

\* The RefreshToken rows of customer c.
CustomerTokensOf(c) ==
  {row \in tokens : row.kind = "customer" /\ row.principal = c}

\* C26: the step that completes deleteCustomer(c) leaves c CLOSED, every
\* account of c CLOSED, every card on those accounts CANCELLED and no
\* RefreshToken row of c, all in that one step; no card or transaction row
\* is removed, no balance changes, and the rows of other customers stay as
\* they are.  The steps of the call before it change nothing.
C26_DeleteCustomer ==
  [][\A p \in Procs :
       /\ (Completes(p) /\ Served(p).op = "deleteCustomer"
             /\ resp'[p].code = "OK")
          => LET c == Served(p).customerId
             IN /\ pc[p] = "deleteCustomer_tx"
                /\ custStatus'[c] = "CLOSED"
                /\ \A a \in Accounts :
                     accStatus'[a] = IF AccountCustomer(a) = c THEN "CLOSED"
                                     ELSE accStatus[a]
                /\ \A k \in CardIds :
                     /\ cards'[k].exists = cards[k].exists
                     /\ cards[k].exists =>
                          IF AccountCustomer(cards[k].accountId) = c
                            THEN cards'[k] =
                                   [cards[k] EXCEPT !.status = "CANCELLED"]
                            ELSE cards'[k] = cards[k]
                /\ tokens' = tokens \ CustomerTokensOf(c)
                /\ \A o \in Customers \ {c} : custStatus'[o] = custStatus[o]
                /\ UNCHANGED <<balance, ledgerVars>>
       /\ (pc'[p] = "deleteCustomer_tx" /\ pc[p] # "deleteCustomer_tx")
          => UNCHANGED <<storeVars, ledgerVars, tokens>>
  ]_vars

\* Customer c1, who had logged in, held a card and had a deposit, has been
\* deleted.
C26_Witness ==
  /\ pc["p1"] = "done"
  /\ req["p1"].op = "deleteCustomer"
  /\ req["p1"].customerId = "c1"
  /\ resp["p1"].code = "OK"
  /\ issued > 0
  /\ cards["k1"].status = "CANCELLED"
  /\ \E i \in DOMAIN txns : txns[i].accountId = "a1"
  /\ balance["a1"] > InitBalance

\* The rows of a table that are PENDING.
PendingIn(table) == {i \in DOMAIN table : table[i].status = "PENDING"}

\* As many Transactions as Payments are PENDING, the PENDING Transactions
\* are DEBITs, and every armed timer holds a PENDING Payment and its
\* PENDING Transaction.
PendingPaired ==
  /\ Cardinality(PendingIn(payments)) = Cardinality(PendingIn(txns))
  /\ \A j \in PendingIn(txns) : txns[j].type = "DEBIT"
  /\ \A t \in timers :
       /\ payments[t.payment].status = "PENDING"
       /\ txns[t.txn].status = "PENDING"
       /\ txns[t.txn].accountId = payments[t.payment].accountId
       /\ txns[t.txn].amount = payments[t.payment].amount
       /\ \A o \in timers : (o.payment = t.payment \/ o.txn = t.txn) => o = t

\* A step that adds a Payment adds it PENDING together with its PENDING
\* DEBIT Transaction and takes the amount from the balance.
CreatesPaired ==
  Len(payments') # Len(payments) =>
    LET pay == payments'[Len(payments')]
        tx == txns'[Len(txns')]
    IN /\ payments' = Append(payments, pay)
       /\ txns' = Append(txns, tx)
       /\ pay.status = "PENDING"
       /\ tx = [accountId |-> pay.accountId, type |-> "DEBIT",
                amount |-> pay.amount,
                balanceAfter |-> balance[pay.accountId] - pay.amount,
                status |-> "PENDING"]
       /\ balance' = [balance EXCEPT ![pay.accountId] = @ - pay.amount]
       /\ timers' = timers \cup {[payment |-> Len(payments'),
                                  txn |-> Len(txns')]}

\* A step that changes a row of a Payment or the status of a Transaction
\* completes one PENDING Payment and its PENDING Transaction together and
\* leaves the balances alone.
SettlesPaired ==
  (\/ \E i \in DOMAIN payments : payments'[i] # payments[i]
   \/ \E j \in DOMAIN txns : txns'[j] # txns[j])
  => \E t \in timers :
       /\ payments[t.payment].status = "PENDING"
       /\ txns[t.txn].status = "PENDING"
       /\ payments' = [payments EXCEPT ![t.payment].status = "COMPLETED"]
       /\ txns' = [txns EXCEPT ![t.txn].status = "COMPLETED"]
       /\ UNCHANGED balance

\* C28: a Payment and its DEBIT Transaction have the same status at all
\* times: they are created PENDING in the step that takes the amount from
\* the balance, and the only later change of either is the settlement,
\* which sets both COMPLETED in one step and changes no balance.
C28_PaymentAndTransaction ==
  []PendingPaired /\ [][CreatesPaired /\ SettlesPaired]_vars

\* One payment has settled while another is still pending.
C28_Witness ==
  /\ \E i \in DOMAIN payments : payments[i].status = "COMPLETED"
  /\ \E i \in DOMAIN payments : payments[i].status = "PENDING"
  /\ \E j \in DOMAIN txns :
       txns[j].type = "DEBIT" /\ txns[j].status = "COMPLETED"
  /\ Cardinality(timers) = 1

\* Payment i has been created; it is COMPLETED.
Created(i) == Len(payments) >= i
Settled(i) == Len(payments) >= i /\ payments[i].status = "COMPLETED"

\* C29: every payment that has been created is eventually COMPLETED (its
\* transaction is completed in the same step): none stays PENDING for ever.
C29_EventuallyCompleted ==
  \A i \in 1..PayRequests : Created(i) ~> Settled(i)

\* The requests of key k let through less than 15 minutes before now.
RecentAdmits(k, now) ==
  {i \in DOMAIN admits[k] : now - admits[k][i] < 15}

\* The timestamps an entry would hold after the filter at time n.
LiveAt(entry, n) == SelectSeq(entry.timestamps, LAMBDA t : n - t < 15)

\* No interval shorter than 15 minutes holds more than 10 requests of a key
\* that were let through.
AtMostTenPerWindow ==
  \A k \in RateKeys :
    \A i \in DOMAIN admits[k] :
      Cardinality(RecentAdmits(k, admits[k][i]) \cap 1..i) <= 10

\* A request is refused with 429 exactly when 10 requests of its key were
\* let through in the last 15 minutes, whatever the sweep has removed; it
\* is then not recorded; a request let through is recorded once, with its
\* arrival time; the entries and records of other keys stay as they are.
Admission ==
  \A p \in Procs :
    (req'[p] # req[p] /\ "ip" \in DOMAIN Served(p)) =>
      LET k == <<Served(p).ip, Served(p).path>>
          full == Cardinality(RecentAdmits(k, clock)) >= 10
      IN /\ full <=> (pc'[p] = "done" /\ resp'[p].status = 429
                        /\ resp'[p].code = "RATE_LIMIT_EXCEEDED")
         /\ admits'[k] = IF full THEN admits[k]
                         ELSE Append(admits[k], clock)
         /\ limiter'[k].timestamps =
              IF full THEN LiveAt(limiter[k], clock)
              ELSE Append(LiveAt(limiter[k], clock), clock)
         /\ \A o \in RateKeys \ {k} :
              admits'[o] = admits[o] /\ limiter'[o] = limiter[o]

\* The sweep lets through and refuses nothing, and removes no timestamp
\* that a later filter would keep.
SweepIsQuiet ==
  (limiter' # limiter /\ UNCHANGED procVars) =>
    /\ admits' = admits
    /\ \A k \in RateKeys, n \in clock..MaxMinutes :
         LiveAt(limiter'[k], n) = LiveAt(limiter[k], n)

\* C30: per key (client IP, path), at most 10 requests are let through in
\* any interval shorter than 15 minutes; a request that arrives when 10
\* were let through in the last 15 minutes is answered 429
\* RATE_LIMIT_EXCEEDED and not recorded; other keys are not affected; and
\* the sweep changes nothing of this.
C30_RateLimit ==
  []AtMostTenPerWindow /\ [][Admission /\ SweepIsQuiet]_vars

\* An eleventh login of ip1 within the window has just been refused, ip2
\* has been let through, and the clock has moved.
C30_Witness ==
  /\ Len(admits[<<"ip1", "/api/v1/admin/auth/login">>]) >= 10
  /\ pc["p1"] = "done"
  /\ resp["p1"].status = 429
  /\ Len(admits[<<"ip2", "/api/v1/admin/auth/login">>]) >= 1
  /\ clock > 0

\* C31: a request whose mutation has been committed (it is at its audit
\* write or at its idempotency-record write) is answered with the success
\* response of the mutation, whatever becomes of that write.
C31_WriteFailureHarmless ==
  [][\A p \in Procs :
       (Completes(p) /\ pc[p] \in {"route_audit", "route_save"})
       => /\ IsSuccess(resp'[p])
          /\ resp'[p].body = loc[p].result
  ]_vars

\* No record older than 24 hours, and no expired refresh token of the kind.
NoStaleRecord(table) == \A k \in Keys : table[k].exists => ~table[k].stale
NoExpiredToken(rows, kind) ==
  \A row \in rows : row.kind = kind => ~row.expired

\* C32: every pass of the sweep runs its three deletions, whatever becomes of
\* the other two: the pass, once begun, leaves no record older than 24 hours
\* unless the deletion of records is rejected, goes on to leave no expired
\* customer refresh token unless that deletion is rejected, and ends leaving
\* no expired employee refresh token unless that deletion is rejected; and
\* the pass ends, so that the next one can begin.
C32_IndependentDeletions ==
  [][/\ (sweep = "idle" /\ sweep' # "idle" /\ "idempotencyRecord" \notin faults)
        => NoStaleRecord(idem')
     /\ (sweep = "refreshToken" /\ sweep' # sweep /\ "refreshToken" \notin faults)
        => NoExpiredToken(tokens', "customer")
     /\ (sweep # "idle" /\ sweep' = "idle" /\ "employeeRefreshToken" \notin faults)
        => NoExpiredToken(tokens', "employee")
  ]_vars

\* C33: whatever way concurrent transfers, payments and deposits interleave
\* on an account, its balance is never negative (so two debits whose sum
\* exceeds the balance have not both succeeded), as in every serial
\* execution of the same calls.
C33_SerialBalance ==
  Len(withdrawals) = 0 => \A a \in Accounts : balance[a] >= 0

\* The service of slot p has returned and the handler holds its result.
HoldsResult(p) == pc[p] \in {"route_audit", "route_save"}

\* C34: two requests in flight with the same Idempotency-Key, route and
\* body have not both missed the lookup and run the handler: no two slots
\* hold the results of two executions of one keyed request.
C34_InFlightOnce ==
  \A p \in Procs, q \in Procs :
    (/\ p # q
     /\ HoldsResult(p) /\ HoldsResult(q)
     /\ req[p].via.key # NoKey
     /\ SameRequest(req[p], req[q]))
    => loc[p].result = loc[q].result

\* C35: in every state, whatever way createCard, updateCard, the bot's
\* block-card, updateAccount and deleteCustomer interleave, every card of a
\* CLOSED account is CANCELLED.
C35_ClosedMeansCancelled ==
  \A k \in CardIds :
    (cards[k].exists /\ accStatus[cards[k].accountId] = "CLOSED")
    => cards[k].status = "CANCELLED"

\* Slot p is serving, once the step is taken, a withdrawal on the channel.
ServesWithdrawal(p, channels) ==
  /\ Served(p).op = "withdrawal"
  /\ Served(p).channel \in channels

\* An ATM withdrawal is let through to its transaction only with an ACTIVE
\* DEBIT card of the account that is not past its expiry, and succeeds only
\* from there, with that card still ACTIVE.
AtmNeedsCard(p) ==
  LET a == Served(p).accountId
  IN /\ (req'[p] # req[p] /\ pc'[p] = "withdrawal_tx")
        => /\ loc'[p].card \in ActiveDebit(a)
           /\ loc'[p].card \notin pastExpiry
     /\ (Completes(p) /\ IsSuccess(resp'[p]))
        => /\ pc[p] = "withdrawal_commit"
           /\ loc[p].card \in ActiveDebit(a)
     /\ (pc'[p] = "withdrawal_commit" /\ pc[p] # pc'[p])
        => (pc[p] = "withdrawal_tx" /\ loc'[p] = loc[p])

\* The card selected is past its expiry: it is written EXPIRED and the call
\* fails with CARD_NOT_ACTIVE; neither the balance nor the ledger changes.
AtmExpires(p) ==
  LET a == Served(p).accountId
  IN /\ (req'[p] # req[p] /\ pc'[p] = "withdrawal_expire")
        => /\ loc'[p].card \in UsableDebit(a) \cap pastExpiry
           /\ UNCHANGED <<storeVars, ledgerVars>>
     /\ (req'[p] # req[p] /\ pc'[p] = "done"
           /\ WithdrawalCheck(AccountRow(a), Served(p).amount) = "OK")
        => /\ resp'[p].code = "CARD_NOT_ACTIVE"
           /\ ActiveDebit(a) = {}
           /\ UsableDebit(a) = {} \/ UsableDebit(a) \ pastExpiry # {}
           /\ UNCHANGED <<storeVars, ledgerVars>>
     /\ pc[p] = "withdrawal_expire"
        => /\ pc'[p] = "done"
           /\ resp'[p].code = "CARD_NOT_ACTIVE"
           /\ cards' = [cards EXCEPT ![loc[p].card].status = "EXPIRED"]
           /\ UNCHANGED <<balance, ledgerVars>>

\* A withdrawal on another channel: its outcome is that of the checks on
\* the amount and the account alone, and it changes no card.
CounterIgnoresCards(p) ==
  LET r == Served(p)
      code == WithdrawalCheck(AccountRow(r.accountId), r.amount)
  IN /\ req'[p] # req[p]
        => IF code = "OK" THEN pc'[p] = "withdrawal_tx"
           ELSE pc'[p] = "done" /\ resp'[p].code = code
     /\ pc[p] = "withdrawal_tx"
        => /\ pc'[p] = "done"
           /\ resp'[p].code = "CREATED"
           /\ balance' = [balance EXCEPT ![r.accountId] = @ - r.amount]
     /\ cards' = cards

\* C36: an ATM withdrawal succeeds only with an ACTIVE DEBIT card of the
\* account that is not past its expiry; when the card selected is past its
\* expiry it is set to EXPIRED and the call fails with CARD_NOT_ACTIVE, the
\* balance unchanged; a TELLER or ONLINE withdrawal depends on no card and
\* on no daily limit.
C36_AtmCardGate ==
  [][\A p \in Procs :
       /\ (ServesWithdrawal(p, {"ATM"}) /\ (pc'[p] # pc[p] \/ req'[p] # req[p]))
          => (AtmNeedsCard(p) /\ AtmExpires(p))
       /\ (ServesWithdrawal(p, {"TELLER", "ONLINE"})
             /\ (pc'[p] # pc[p] \/ req'[p] # req[p]))
          => CounterIgnoresCards(p)
  ]_vars

\* An ONLINE withdrawal has succeeded on an account whose only debit card
\* an ATM withdrawal found past its expiry and wrote EXPIRED, after an ATM
\* withdrawal had used up the day's limit.
C36_Witness ==
  /\ cards["k1"].status = "EXPIRED"
  /\ ActiveDebit("a1") = {}
  /\ TodayAtmTotal("a1") = cards["k1"].dailyLimit
  /\ pc["p1"] = "done"
  /\ req["p1"].op = "withdrawal"
  /\ req["p1"].channel = "ONLINE"
  /\ resp["p1"].code = "CREATED"

\* C37: a POST of a transfer or a payment on the customer routes is answered
\* with a success response (that of the handler or a stored one) only if
\* the account the money comes from belongs to the customer who asks.
C37_ReplayKeepsOwnership ==
  [][\A p \in Procs :
       (/\ Completes(p)
        /\ Served(p).via.route \in CustomerRoutes
        /\ IsSuccess(resp'[p]))
       => AssertAccountOwnership(Debited(Served(p)),
                                 Served(p).via.customerId) = "OK"
  ]_vars

\* C38: a login or a refresh answers with a customer access token only for
\* a customer whose status is ACTIVE.
C38_ActiveOnly ==
  [][\A p \in Procs :
       (/\ Completes(p)
        /\ Served(p).op \in {"login", "refresh"}
        /\ Served(p).kind = "customer"
        /\ IsSuccess(resp'[p]))
       => custStatus[resp'[p].body.accessToken.sub] = "ACTIVE"
  ]_vars

\* Slot p has scored an answer to question q of session s and has not yet
\* written the outcome.
Scored(p, s, q) ==
  /\ pc[p] = "answer_write"
  /\ req[p].sessionId = s
  /\ req[p].questionId = q

\* C39: whatever way answerQuestion calls on one session interleave, no
\* question has two scored answers at once, and an answer is scored only
\* for the question that is still the last one asked of a session still
\* IN_PROGRESS when its outcome is written.
C39_ScoredOnce ==
  \A s \in SessionIds, q \in QuestionIds :
    /\ \A p1 \in Procs, p2 \in Procs :
         (Scored(p1, s, q) /\ Scored(p2, s, q)) => p1 = p2
    /\ \A p \in Procs :
         Scored(p, s, q)
         => /\ sessions[s].status \in {"IN_PROGRESS", "EXPIRED"}
            /\ Last(sessions[s].questionsAsked) = q

\* What the Transaction rows of account a add up to: credits less debits.
RECURSIVE NetOf(_, _)
NetOf(rows, a) ==
  IF rows = <<>> THEN 0
  ELSE NetOf(Tail(rows), a)
         + (IF Head(rows).accountId # a THEN 0
            ELSE IF Head(rows).type = "CREDIT" THEN Head(rows).amount
            ELSE 0 - Head(rows).amount)

BalanceIsNet == \A a \in Accounts : balance[a] = NetOf(txns, a)

\* The Transaction rows the step creates, and those of account a among them.
NewRows == SubSeq(txns', Len(txns) + 1, Len(txns'))
NewRowsOf(a) == {i \in 1..Len(NewRows) : NewRows[i].accountId = a}

\* Every step keeps the rows there are (but for their status) and creates,
\* for each account whose balance it changes, one row that carries the
\* change and the new balance, and no row for any other account.
OneRowPerChange ==
  /\ Len(txns') >= Len(txns)
  /\ \A i \in 1..Len(txns) :
       [txns'[i] EXCEPT !.status = "any"] = [txns[i] EXCEPT !.status = "any"]
  /\ \A a \in Accounts :
       IF balance'[a] = balance[a] THEN NewRowsOf(a) = {}
       ELSE \E i \in 1..Len(NewRows) :
              /\ NewRowsOf(a) = {i}
              /\ NewRows[i].balanceAfter = balance'[a]
              /\ NetOf(<<NewRows[i]>>, a) = balance'[a] - balance[a]

\* C40: the balance of an account opened with balance 0 is, in every state
\* and whatever way deposits, withdrawals, transfers and payments interleave,
\* the sum of its CREDIT rows less the sum of its DEBIT rows; and every
\* change of a balance comes with exactly one Transaction row of the account,
\* whose balanceAfter is the balance after the change.
C40_BalanceIsLedger ==
  []BalanceIsNet /\ [][OneRowPerChange]_vars

\* Two withdrawals that overlapped have both debited an account that held
\* one deposit: the balance is below zero and is still what the rows add up
\* to.
C40_Witness ==
  /\ Len(deposits) = 1
  /\ Len(withdrawals) = 2
  /\ balance["a1"] < 0
  /\ balance["a1"] = NetOf(txns, "a1")
  /\ \A p \in Procs : pc[p] = "done"

=============================================================================
